---- MODULE Spec2Model ----
(***************************************************************************)
(* Runtime host bridge of oasis-core (go/runtime/registry/host.go):        *)
(* RuntimeHostNode (provisioning, the runtimeNotify latch) and the         *)
(* runtimeHostNotifier (Start/Stop, the key-manager policy watch loop and  *)
(* the consensus block watch loop).                                        *)
(*                                                                         *)
(* Goroutines are modelled as program counters; a step is one statement    *)
(* or one channel operation.  A Go select with several ready cases is a    *)
(* nondeterministic choice between them.  An unrecovered panic (close of   *)
(* a closed channel) terminates the process: no action is enabled once     *)
(* a panic has happened.                                                  *)
(***************************************************************************)
EXTENDS Integers, Sequences, FiniteSets, TLC

(* ------------------------------ bounds -------------------------------- *)

\* Number of goroutines calling into one RuntimeHostNode.
NumCallers == 2

\* Number of ProvisionHostedRuntime calls that are begun.
MaxProvisions == 2

\* Number of blocks the consensus backend emits.
MaxBlocks == 4

\* Blocks the upstream stream holds before its producer has to wait.
RawCap == 2

\* Number of key-manager runtime namespaces.
NumKm == 2

\* Number of distinct key-manager policies carried by status updates.
NumPolicies == 2

\* Number of distinct versions a key-manager deployment can have.
NumVersions == 2

\* Number of request variants a request envelope may have populated at once.
MaxVariants == 2

\* Number of transactions the transaction pool holds at most.
MaxPool == 10

\* Largest limit of a fetch-transaction-batch request.
MaxLimit == 3

\* Number of events a consensus backend returns for one height at most.
MaxEvents == 2

\* Number of Start calls made on the notifier.
MaxStarts == 2

\* Status updates the status subscription holds undelivered at most.
StCap == 2

\* Blocks the stream produces at most while both watch loops are observed
\* side by side.
LoopBlocks == 2

\* Number of runtime versions a host configuration lists at most.
MaxRtVersions == 2

(* ------------------------- program constants -------------------------- *)

\* channels.NewRingChannel(channels.BufferCap(1))
RingCap == 1

Callers == 1..NumCallers

\* The nil pointer / the zero value of an object reference.
Nil == 0

VARIABLES
    \* ---- process
    panicked,       \* "no", or the channel whose second close panicked
    \* ---- RuntimeHostNode
    mu,             \* RuntimeHostNode.Mutex: Nil or the caller holding it
    agg,            \* n.agg: Nil or the id of the installed aggregate
    runtime,        \* n.runtime: Nil or the id of the installed rich runtime
    notifier,       \* n.notifier: Nil or the id of the installed notifier
    runtimeNotify,  \* n.runtimeNotify: "open" or "closed"
    cpc,            \* caller -> position inside the method it executes
    cctx,           \* caller -> state of the ctx passed to WaitHostedRuntime
    clocal,         \* caller -> the method's local (agg/rr id, or agg read)
    provisions,     \* ProvisionHostedRuntime calls begun so far
    closeCalls,     \* executions of close(n.runtimeNotify) so far
    firstWaitRt,    \* the runtime the first WaitHostedRuntime call with a
                    \* live ctx returned, or Nil
    lastRet,        \* the most recent return of a RuntimeHostNode method
    provRts,        \* caller -> the runtimes its latest provisioning that
                    \* got to the critical section has instantiated
    lastDsc,        \* rtDsc of watchPolicyUpdates: the descriptor update
                    \* received last, with the key manager tracked then
    \* ---- runtimeHostNotifier
    started,        \* n.started
    stopCh,         \* n.stopCh: "open" or "closed"
    ctxDone,        \* n.ctx has been canceled
    stopCalls,      \* calls of Stop so far
    stopMark,       \* number of blocks produced when Stop closed stopCh
    startCalls,     \* calls of Start so far
    polSpawns,      \* executions of go n.watchPolicyUpdates() so far
    blkSpawns,      \* executions of go n.watchConsensusLightBlocks() so far
    \* ---- watchConsensusLightBlocks
    blkPc,          \* position of the block watch loop
    blkSub,         \* the WatchBlocks subscription: "none", "open", "closed"
    rawCh,          \* blocks emitted on the stream, not yet forwarded
    rawClosed,      \* the upstream has closed rawCh
    fwdPc,          \* position of the forwarding goroutine
    fwdBlk,         \* the block the forwarding goroutine holds
    blkCh,          \* buffer of the ring channel
    blkChIn,        \* input side of the ring channel: "open" or "closed"
    blk,            \* the block the loop is notifying the runtime of
    produced,       \* number of blocks emitted on the stream so far
    cellWrites,     \* blocks written to the ring channel so far, in order
    syncLog,        \* heights passed to host.ConsensusSync so far, in order
    lastTake,       \* last receive from blkCh.Out(): what it got, and the
                    \* newest block written by then
    burstTake,      \* a receive from blkCh.Out() happened after the first
                    \* block was written and before the third was
    burstSyncDone,  \* a ConsensusSync call returned after the first block
                    \* was produced and before the third was
    \* ---- watchPolicyUpdates
    polPc,          \* position of the policy watch loop
    dscSub,         \* the WatchRegistryDescriptor subscription
    kmRtID,         \* the loop's kmRtID: Nil or the tracked namespace
    done,           \* the loop's done
    innerCancel,    \* cancel() of the current iteration's ctx has been called
    \* ---- watchKmPolicyUpdates
    kmPc,           \* position of the inner watch goroutine
    kmArg,          \* its kmRtID parameter
    subs,           \* open inner subscriptions: kind -> namespaces they
                    \* were opened for
    quoteUpdates,   \* rtInfo.Features.KeyManagerQuotePolicyUpdates
    st,             \* last status seen for the tracked key manager, or nil
    sc,             \* last SGX constraints parsed, or nil
    vi,             \* last active deployment seen, or nil
    cur,            \* the event the inner watch received last
    pend,           \* pushes the handling of cur still has to make
    curPushes,      \* pushes made so far in handling cur
    latePush,       \* a push was made for an event received after Stop
    firstFailed,    \* position in curPushes of the first push that failed
                    \* or timed out, or 0
    prevKnew,       \* an invocation of the inner watch that has returned
                    \* knew a status or SGX constraints, and none has
                    \* learned a status or SGX constraints since
    stCh,           \* status updates published on the inner watch's status
                    \* subscription and not yet received, oldest first
    \* ---- runtimeHostHandler
    hPc,            \* "idle", "called" (Handle entered) or "returned"
    hRq,            \* the request envelope of the current Handle call
    hRet,           \* what Handle returned: response envelope and error
    hCalls,         \* collaborator operations the current call invoked
    localStore      \* the runtime's local key/value store: key -> value

nodeVars == <<mu, agg, runtime, notifier, runtimeNotify, cpc, cctx, clocal,
              provisions, closeCalls, firstWaitRt, lastRet>>

notifVars == <<started, stopCh, ctxDone, stopCalls, stopMark, startCalls,
               polSpawns, blkSpawns>>

blockVars == <<blkPc, blkSub, rawCh, rawClosed, fwdPc, fwdBlk, blkCh, blkChIn,
               blk, produced, cellWrites, syncLog, lastTake, burstTake,
               burstSyncDone>>

policyVars == <<polPc, dscSub, kmRtID, done, innerCancel, kmPc, kmArg,
                subs, quoteUpdates, st, sc, vi, cur, pend, curPushes, latePush,
                firstFailed, prevKnew>>

handlerVars == <<hPc, hRq, hRet, hCalls, localStore>>

vars == <<panicked, nodeVars, notifVars, blockVars, policyVars, handlerVars,
          stCh, provRts, lastDsc>>

\* The process has not been terminated by a panic.
Running == panicked = "no"

\* What a step of a RuntimeHostNode method leaves alone.
NodeFrame ==
    UNCHANGED <<notifVars, blockVars, policyVars, handlerVars, stCh, provRts,
                lastDsc>>

\* What a step of the block watch loop and its pipeline leaves alone.
BlocksFrame ==
    UNCHANGED <<nodeVars, policyVars, handlerVars, stCh, provRts, lastDsc>>

\* What a step of the policy watch loop and its inner watch leaves alone.
PolicyFrame ==
    UNCHANGED <<nodeVars, notifVars, blockVars, handlerVars, stCh, provRts,
                lastDsc>>

\* What a step that adds to or takes from the status subscription leaves
\* alone.
StreamFrame ==
    UNCHANGED <<nodeVars, notifVars, blockVars, handlerVars, provRts, lastDsc>>

\* What a step of a Handle call leaves alone.
HandlerFrame ==
    UNCHANGED <<nodeVars, notifVars, blockVars, policyVars, stCh, provRts,
                lastDsc>>

(* --------------------------- RuntimeHostNode --------------------------- *)

NoRet == [op |-> "none", rt |-> Nil, err |-> "nil", ctx |-> "none"]

\* The versions of the runtime a host configuration can list.
RtVersions == 1..MaxRtVersions

\* cfgs of runtime.Host: version -> host.Config.  The MessageHandler of a
\* configuration is not set by runtime.Host.
HostConfigs ==
    UNION {[S -> {[messageHandler |-> Nil]}] : S \in SUBSET RtVersions}

\* No provisioning of the caller has got to the critical section.
NoRuntimes == [call |-> Nil, cfgs |-> {}, rts |-> {}]

\* Mutant of InstallHandler: the configuration is passed on as it came.
InstallHandler_Skip(cfg, msgHandler) == cfg

\* rtCfg := *cfg; rtCfg.MessageHandler = msgHandler
InstallHandler(cfg, msgHandler) == [cfg EXCEPT !.messageHandler = msgHandler]

\* provisioner.NewRuntime(ctx, rtCfg): the runtime of the version, instantiated
\* with the message handler its configuration has at the call.
NewRuntime(version, rtCfg) ==
    [version |-> version, handler |-> rtCfg.messageHandler]

\* NewRuntimeHostNode: every field zero, runtimeNotify a fresh open channel.
NodeInit ==
    /\ mu = Nil
    /\ agg = Nil
    /\ runtime = Nil
    /\ notifier = Nil
    /\ runtimeNotify = "open"
    /\ cpc = [c \in Callers |-> "idle"]
    /\ cctx = [c \in Callers |-> "none"]
    /\ clocal = [c \in Callers |-> Nil]
    /\ provisions = 0
    /\ closeCalls = 0
    /\ firstWaitRt = Nil
    /\ lastRet = NoRet
    /\ provRts = [c \in Callers |-> NoRuntimes]

\* The method a caller is executing, by its position.
MethodAt(pc) ==
    CASE pc \in {"prov_lock", "prov_set_agg", "prov_set_runtime",
                 "prov_set_notifier", "prov_close"} -> "provision"
      [] pc \in {"wait_select", "wait_lock", "wait_read"} -> "wait"
      [] pc = "get_read" -> "get"
      [] pc \in {"setv_read", "setv_call"} -> "setversion"
      [] OTHER -> "none"

\* A method returns to its caller.
Return(c, op, rt, err) ==
    /\ cpc' = [cpc EXCEPT ![c] = "idle"]
    /\ cctx' = [cctx EXCEPT ![c] = "none"]
    /\ clocal' = [clocal EXCEPT ![c] = Nil]
    /\ lastRet' = [op |-> op, rt |-> rt, err |-> err, ctx |-> cctx[c]]
    /\ firstWaitRt' = IF op = "wait" /\ cctx[c] = "live" /\ firstWaitRt = Nil
                      THEN rt ELSE firstWaitRt

\* n.Lock()
Lock(c) ==
    /\ mu = Nil
    /\ mu' = c

\* Mutant of ProvBuild: a failed provisioning closes the latch all the same.
ProvBuild_CloseOnFailure(c) ==
    /\ Running
    /\ cpc[c] = "idle"
    /\ provisions < MaxProvisions
    /\ provisions' = provisions + 1
    /\ \/ /\ Return(c, "provision", Nil, "failed")
          /\ runtimeNotify' = "closed"
       \/ /\ cpc' = [cpc EXCEPT ![c] = "prov_lock"]
          /\ clocal' = [clocal EXCEPT ![c] = provisions + 1]
          /\ UNCHANGED <<cctx, firstWaitRt, lastRet, runtimeNotify>>
    /\ UNCHANGED <<panicked, mu, agg, runtime, notifier, closeCalls>>
    /\ NodeFrame

\* ProvisionHostedRuntime up to its critical section:
\* cfgs, provisioner, err := runtime.Host(ctx); then provisioner.NewRuntime for
\* every version; then multi.New.  Any of them may fail, and the method then
\* returns the error before touching the node.  On success the aggregate, its
\* notifier and the rich runtime wrapping it are fresh objects, identified
\* here by the number of the call.
ProvBuild(c) ==
    /\ Running
    /\ cpc[c] = "idle"
    /\ provisions < MaxProvisions
    /\ provisions' = provisions + 1
    /\ \/ Return(c, "provision", Nil, "failed")
       \/ /\ cpc' = [cpc EXCEPT ![c] = "prov_lock"]
          /\ clocal' = [clocal EXCEPT ![c] = provisions + 1]
          /\ UNCHANGED <<cctx, firstWaitRt, lastRet>>
    /\ UNCHANGED <<panicked, mu, agg, runtime, notifier, runtimeNotify, closeCalls>>
    /\ NodeFrame

\* ProvisionHostedRuntime up to its critical section, with the loop over
\* cfgs explicit: msgHandler := n.factory.NewRuntimeHostHandler() is one fresh
\* handler per call (identified by the number of the call); every version's
\* configuration is copied, given the handler and passed to NewRuntime.
\* runtime.Host, a NewRuntime or multi.New may fail, and the method then
\* returns the error before touching the node.
ProvInstantiate(c) ==
    /\ Running
    /\ cpc[c] = "idle"
    /\ provisions < MaxProvisions
    /\ provisions' = provisions + 1
    /\ \/ /\ Return(c, "provision", Nil, "failed")
          /\ UNCHANGED provRts
       \/ \E cfgs \in HostConfigs :
             LET msgHandler == provisions + 1
                 rts == {NewRuntime(v, InstallHandler(cfgs[v], msgHandler))
                            : v \in DOMAIN cfgs}
             IN  /\ cpc' = [cpc EXCEPT ![c] = "prov_lock"]
                 /\ clocal' = [clocal EXCEPT ![c] = provisions + 1]
                 /\ provRts' = [provRts EXCEPT ![c] =
                                   [call |-> provisions + 1, cfgs |-> DOMAIN cfgs,
                                    rts |-> rts]]
                 /\ UNCHANGED <<cctx, firstWaitRt, lastRet>>
    /\ UNCHANGED <<panicked, mu, agg, runtime, notifier, runtimeNotify, closeCalls>>
    /\ UNCHANGED <<notifVars, blockVars, policyVars, handlerVars, stCh, lastDsc>>

\* n.Lock()
ProvLock(c) ==
    /\ Running
    /\ cpc[c] = "prov_lock"
    /\ Lock(c)
    /\ cpc' = [cpc EXCEPT ![c] = "prov_set_agg"]
    /\ UNCHANGED <<panicked, agg, runtime, notifier, runtimeNotify, cctx, clocal,
                   provisions, closeCalls, firstWaitRt, lastRet>>
    /\ NodeFrame

\* Mutant of ProvSetAgg: the lock is released right after n.agg is set.
ProvSetAgg_Unlocks(c) ==
    /\ Running
    /\ cpc[c] = "prov_set_agg"
    /\ agg' = clocal[c]
    /\ mu' = Nil
    /\ cpc' = [cpc EXCEPT ![c] = "prov_set_runtime"]
    /\ UNCHANGED <<panicked, runtime, notifier, runtimeNotify, cctx, clocal,
                   provisions, closeCalls, firstWaitRt, lastRet>>
    /\ NodeFrame

\* n.agg = agg.(*multi.Aggregate)
ProvSetAgg(c) ==
    /\ Running
    /\ cpc[c] = "prov_set_agg"
    /\ agg' = clocal[c]
    /\ cpc' = [cpc EXCEPT ![c] = "prov_set_runtime"]
    /\ UNCHANGED <<panicked, mu, runtime, notifier, runtimeNotify, cctx, clocal,
                   provisions, closeCalls, firstWaitRt, lastRet>>
    /\ NodeFrame

\* n.runtime = rr
ProvSetRuntime(c) ==
    /\ Running
    /\ cpc[c] = "prov_set_runtime"
    /\ runtime' = clocal[c]
    /\ cpc' = [cpc EXCEPT ![c] = "prov_set_notifier"]
    /\ UNCHANGED <<panicked, mu, agg, notifier, runtimeNotify, cctx, clocal,
                   provisions, closeCalls, firstWaitRt, lastRet>>
    /\ NodeFrame

\* n.notifier = notifier; n.Unlock()
ProvSetNotifier(c) ==
    /\ Running
    /\ cpc[c] = "prov_set_notifier"
    /\ notifier' = clocal[c]
    /\ mu' = Nil
    /\ cpc' = [cpc EXCEPT ![c] = "prov_close"]
    /\ UNCHANGED <<panicked, agg, runtime, runtimeNotify, cctx, clocal,
                   provisions, closeCalls, firstWaitRt, lastRet>>
    /\ NodeFrame

\* close(n.runtimeNotify); return rr, notifier, nil.
\* Closing a channel that is already closed panics.
ProvClose(c) ==
    /\ Running
    /\ cpc[c] = "prov_close"
    /\ closeCalls' = closeCalls + 1
    /\ IF runtimeNotify = "open"
       THEN /\ runtimeNotify' = "closed"
            /\ Return(c, "provision", clocal[c], "nil")
            /\ UNCHANGED panicked
       ELSE /\ panicked' = "runtimeNotify"
            /\ UNCHANGED <<runtimeNotify, cpc, cctx, clocal, firstWaitRt, lastRet>>
    /\ UNCHANGED <<mu, agg, runtime, notifier, provisions>>
    /\ NodeFrame

\* GetHostedRuntime: n.Lock(); defer n.Unlock()
GetLock(c) ==
    /\ Running
    /\ cpc[c] = "idle"
    /\ Lock(c)
    /\ cpc' = [cpc EXCEPT ![c] = "get_read"]
    /\ UNCHANGED <<panicked, agg, runtime, notifier, runtimeNotify, cctx, clocal,
                   provisions, closeCalls, firstWaitRt, lastRet>>
    /\ NodeFrame

\* return n.runtime (and the deferred Unlock).  WaitHostedRuntime returns what
\* its call of GetHostedRuntime returned, with a nil error.
GetRead(c) ==
    /\ Running
    /\ cpc[c] \in {"get_read", "wait_read"}
    /\ mu' = Nil
    /\ Return(c, MethodAt(cpc[c]), runtime, "nil")
    /\ UNCHANGED <<panicked, agg, runtime, notifier, runtimeNotify, provisions,
                   closeCalls>>
    /\ NodeFrame

\* WaitHostedRuntime is called with a context that is live or already
\* canceled, and reaches its select.
WaitCall(c) ==
    /\ Running
    /\ cpc[c] = "idle"
    /\ \E x \in {"live", "precanceled"} : cctx' = [cctx EXCEPT ![c] = x]
    /\ cpc' = [cpc EXCEPT ![c] = "wait_select"]
    /\ UNCHANGED <<panicked, mu, agg, runtime, notifier, runtimeNotify, clocal,
                   provisions, closeCalls, firstWaitRt, lastRet>>
    /\ NodeFrame

\* The caller's context is canceled while WaitHostedRuntime is in its select.
CtxCancel(c) ==
    /\ Running
    /\ cpc[c] = "wait_select"
    /\ cctx[c] = "live"
    /\ cctx' = [cctx EXCEPT ![c] = "canceled"]
    /\ UNCHANGED <<panicked, mu, agg, runtime, notifier, runtimeNotify, cpc,
                   clocal, provisions, closeCalls, firstWaitRt, lastRet>>
    /\ NodeFrame

\* select: case <-ctx.Done(): return nil, ctx.Err()
WaitSelectDone(c) ==
    /\ Running
    /\ cpc[c] = "wait_select"
    /\ cctx[c] \in {"precanceled", "canceled"}
    /\ Return(c, "wait", Nil, "canceled")
    /\ UNCHANGED <<panicked, mu, agg, runtime, notifier, runtimeNotify,
                   provisions, closeCalls>>
    /\ NodeFrame

\* Mutant of WaitSelectNotify: the receive does not wait for the close.
WaitSelectNotify_NoLatch(c) ==
    /\ Running
    /\ cpc[c] = "wait_select"
    /\ cpc' = [cpc EXCEPT ![c] = "wait_lock"]
    /\ UNCHANGED <<panicked, mu, agg, runtime, notifier, runtimeNotify, cctx,
                   clocal, provisions, closeCalls, firstWaitRt, lastRet>>
    /\ NodeFrame

\* select: case <-n.runtimeNotify: (a receive from a closed channel is ready)
WaitSelectNotify(c) ==
    /\ Running
    /\ cpc[c] = "wait_select"
    /\ runtimeNotify = "closed"
    /\ cpc' = [cpc EXCEPT ![c] = "wait_lock"]
    /\ UNCHANGED <<panicked, mu, agg, runtime, notifier, runtimeNotify, cctx,
                   clocal, provisions, closeCalls, firstWaitRt, lastRet>>
    /\ NodeFrame

\* return n.GetHostedRuntime(), nil: n.Lock() inside GetHostedRuntime
WaitLock(c) ==
    /\ Running
    /\ cpc[c] = "wait_lock"
    /\ Lock(c)
    /\ cpc' = [cpc EXCEPT ![c] = "wait_read"]
    /\ UNCHANGED <<panicked, agg, runtime, notifier, runtimeNotify, cctx, clocal,
                   provisions, closeCalls, firstWaitRt, lastRet>>
    /\ NodeFrame

\* SetHostedRuntimeVersion: n.Lock()
SetVersionLock(c) ==
    /\ Running
    /\ cpc[c] = "idle"
    /\ Lock(c)
    /\ cpc' = [cpc EXCEPT ![c] = "setv_read"]
    /\ UNCHANGED <<panicked, agg, runtime, notifier, runtimeNotify, cctx, clocal,
                   provisions, closeCalls, firstWaitRt, lastRet>>
    /\ NodeFrame

\* Mutant of SetVersionRead: the unlock is deferred to the method's return,
\* so the lock is held during agg.SetVersion.
SetVersionRead_KeepsLock(c) ==
    /\ Running
    /\ cpc[c] = "setv_read"
    /\ clocal' = [clocal EXCEPT ![c] = agg]
    /\ cpc' = [cpc EXCEPT ![c] = "setv_call"]
    /\ UNCHANGED <<panicked, mu, agg, runtime, notifier, runtimeNotify, cctx,
                   provisions, closeCalls, firstWaitRt, lastRet>>
    /\ NodeFrame

\* agg := n.agg; n.Unlock()
SetVersionRead(c) ==
    /\ Running
    /\ cpc[c] = "setv_read"
    /\ clocal' = [clocal EXCEPT ![c] = agg]
    /\ mu' = Nil
    /\ cpc' = [cpc EXCEPT ![c] = "setv_call"]
    /\ UNCHANGED <<panicked, agg, runtime, notifier, runtimeNotify, cctx,
                   provisions, closeCalls, firstWaitRt, lastRet>>
    /\ NodeFrame

\* Mutant of SetVersionFinish: agg is not tested for nil.
SetVersionFinish_NoNilCheck(c) ==
    /\ Running
    /\ cpc[c] = "setv_call"
    /\ \E e \in {"nil", "failed"} : Return(c, "setversion", clocal[c], e)
    /\ UNCHANGED <<panicked, mu, agg, runtime, notifier, runtimeNotify,
                   provisions, closeCalls>>
    /\ NodeFrame

\* if agg == nil { return error }; return agg.SetVersion(ctx, version)
SetVersionFinish(c) ==
    /\ Running
    /\ cpc[c] = "setv_call"
    /\ IF clocal[c] = Nil
       THEN Return(c, "setversion", Nil, "runtime not available")
       ELSE \E e \in {"nil", "failed"} : Return(c, "setversion", clocal[c], e)
    /\ UNCHANGED <<panicked, mu, agg, runtime, notifier, runtimeNotify,
                   provisions, closeCalls>>
    /\ NodeFrame

(* ------------------------ runtimeHostNotifier -------------------------- *)

\* NewRuntimeHostNotifier: stopCh a fresh open channel, started false.
NotifierInit ==
    /\ started = FALSE
    /\ stopCh = "open"
    /\ ctxDone = FALSE
    /\ stopCalls = 0
    /\ stopMark = 0
    /\ startCalls = 0
    /\ polSpawns = 0
    /\ blkSpawns = 0

\* Start: under the notifier's lock, return if started; otherwise set started
\* and spawn watchPolicyUpdates and watchConsensusLightBlocks.  The whole body
\* runs under the lock and calls nothing that blocks, so it is one step.
\* Mutant of Start: the started flag is not tested.
Start_NoStartedCheck ==
    /\ Running
    /\ startCalls < MaxStarts
    /\ startCalls' = startCalls + 1
    /\ started' = TRUE
    /\ polPc' = "subscribe"
    /\ blkPc' = "subscribe"
    /\ polSpawns' = polSpawns + 1
    /\ blkSpawns' = blkSpawns + 1
    /\ UNCHANGED <<dscSub, kmRtID, done, innerCancel, kmPc, kmArg, subs,
                   quoteUpdates, st, sc, vi, cur, pend, curPushes, latePush,
                   firstFailed, prevKnew>>
    /\ UNCHANGED <<panicked, stopCh, ctxDone, stopCalls, stopMark, blkSub, rawCh,
                   rawClosed, fwdPc, fwdBlk, blkCh, blkChIn, blk, produced,
                   cellWrites, syncLog, lastTake, burstTake, burstSyncDone>>
    /\ UNCHANGED <<nodeVars, handlerVars, stCh, provRts, lastDsc>>

Start ==
    /\ Running
    /\ startCalls < MaxStarts
    /\ startCalls' = startCalls + 1
    /\ IF started
       THEN UNCHANGED <<started, polPc, blkPc, polSpawns, blkSpawns>>
       ELSE /\ started' = TRUE
            /\ polPc' = "subscribe"
            /\ blkPc' = "subscribe"
            /\ polSpawns' = polSpawns + 1
            /\ blkSpawns' = blkSpawns + 1
    /\ UNCHANGED <<dscSub, kmRtID, done, innerCancel, kmPc, kmArg, subs,
                   quoteUpdates, st, sc, vi, cur, pend, curPushes, latePush,
                   firstFailed, prevKnew>>
    /\ UNCHANGED <<panicked, stopCh, ctxDone, stopCalls, stopMark, blkSub, rawCh,
                   rawClosed, fwdPc, fwdBlk, blkCh, blkChIn, blk, produced,
                   cellWrites, syncLog, lastTake, burstTake, burstSyncDone>>
    /\ UNCHANGED <<nodeVars, handlerVars, stCh, provRts, lastDsc>>

\* Start as the policy watch sees it: the call that spawns the watch loops.
\* A Start on a started notifier returns at once and leaves every variable
\* the policy watch reads alone (C17), so the specifications of the policy
\* watch take Start once.
StartOnce ==
    /\ ~started
    /\ Start

\* Stop: close(n.stopCh).  Closing a channel that is already closed panics.
Stop ==
    /\ Running
    /\ stopCalls' = stopCalls + 1
    /\ IF stopCh = "open"
       THEN /\ stopCh' = "closed"
            /\ stopMark' = produced
            /\ UNCHANGED panicked
       ELSE /\ panicked' = "stopCh"
            /\ UNCHANGED <<stopCh, stopMark>>
    /\ UNCHANGED <<started, ctxDone, startCalls, polSpawns, blkSpawns, blockVars,
                   policyVars>>
    /\ UNCHANGED <<nodeVars, handlerVars, stCh, provRts, lastDsc>>

\* The context the notifier was created with is canceled.
CancelCtx ==
    /\ Running
    /\ ~ctxDone
    /\ ctxDone' = TRUE
    /\ UNCHANGED <<panicked, started, stopCh, stopCalls, stopMark, startCalls,
                   polSpawns, blkSpawns, blockVars, policyVars>>
    /\ UNCHANGED <<nodeVars, handlerVars, stCh, provRts, lastDsc>>

(* --------------------- watchConsensusLightBlocks ----------------------- *)

\* Height of the k-th block emitted on the stream: 100, 101, 102, ...
Height(k) == 99 + k

NoTake == [got |-> 0, newest |-> 0]

BlocksInit ==
    /\ blkPc = "idle"
    /\ blkSub = "none"
    /\ rawCh = <<>>
    /\ rawClosed = FALSE
    /\ fwdPc = "none"
    /\ fwdBlk = 0
    /\ blkCh = <<>>
    /\ blkChIn = "open"
    /\ blk = 0
    /\ produced = 0
    /\ cellWrites = <<>>
    /\ syncLog = <<>>
    /\ lastTake = NoTake
    /\ burstTake = FALSE
    /\ burstSyncDone = FALSE

\* Mutant of RingAdd: an ordinary queue, nothing is ever discarded.
RingAdd_Queue(buf, x) == Append(buf, x)

\* Mutant of RingAdd: a full buffer keeps its element and drops the new one.
RingAdd_DropNewest(buf, x) == IF Len(buf) >= RingCap THEN buf ELSE Append(buf, x)

\* The ring channel's buffer after a send on blkCh.In(): the element is added
\* and, if the buffer is then over capacity, the oldest one is removed.
RingAdd(buf, x) ==
    LET b == Append(buf, x)
    IN  IF Len(b) > RingCap THEN Tail(b) ELSE b

\* rawCh, sub, err := n.consensus.WatchBlocks(n.ctx).  On an error the loop
\* returns; otherwise it creates the ring channel and spawns the goroutine
\* that forwards rawCh into it.
BlkSubscribe ==
    /\ Running
    /\ blkPc = "subscribe"
    /\ \/ /\ blkPc' = "done"
          /\ UNCHANGED <<blkSub, fwdPc>>
       \/ /\ blkPc' = "select"
          /\ blkSub' = "open"
          /\ fwdPc' = "recv"
    /\ UNCHANGED <<panicked, notifVars, rawCh, rawClosed, fwdBlk, blkCh, blkChIn,
                   blk, produced, cellWrites, syncLog, lastTake, burstTake,
                   burstSyncDone>>
    /\ BlocksFrame

\* The consensus backend emits the next block on the stream.
Produce ==
    /\ Running
    /\ blkSub = "open"
    /\ ~rawClosed
    /\ produced < MaxBlocks
    /\ Len(rawCh) < RawCap
    /\ produced' = produced + 1
    /\ rawCh' = Append(rawCh, Height(produced + 1))
    /\ UNCHANGED <<panicked, notifVars, blkPc, blkSub, rawClosed, fwdPc, fwdBlk,
                   blkCh, blkChIn, blk, cellWrites, syncLog, lastTake, burstTake,
                   burstSyncDone>>
    /\ BlocksFrame

\* The stream produces one of its first LoopBlocks blocks.
ProduceFew == produced < LoopBlocks /\ Produce

\* The upstream closes the stream.
RawClose ==
    /\ Running
    /\ blkSub # "none"
    /\ ~rawClosed
    /\ rawClosed' = TRUE
    /\ UNCHANGED <<panicked, notifVars, blkPc, blkSub, rawCh, fwdPc, fwdBlk, blkCh,
                   blkChIn, blk, produced, cellWrites, syncLog, lastTake,
                   burstTake, burstSyncDone>>
    /\ BlocksFrame

\* Mutant of FwdRecv: the goroutine reads the next block and leaves it in
\* rawCh.
FwdRecv_Peek ==
    /\ Running
    /\ fwdPc = "recv"
    /\ rawCh # <<>>
    /\ fwdBlk' = Head(rawCh)
    /\ fwdPc' = "send"
    /\ UNCHANGED <<panicked, notifVars, blkPc, blkSub, rawCh, rawClosed, blkCh,
                   blkChIn, blk, produced, cellWrites, syncLog, lastTake,
                   burstTake, burstSyncDone>>
    /\ BlocksFrame

\* for blk := range rawCh: the goroutine receives the next block.
FwdRecv ==
    /\ Running
    /\ fwdPc = "recv"
    /\ rawCh # <<>>
    /\ fwdBlk' = Head(rawCh)
    /\ rawCh' = Tail(rawCh)
    /\ fwdPc' = "send"
    /\ UNCHANGED <<panicked, notifVars, blkPc, blkSub, rawClosed, blkCh, blkChIn,
                   blk, produced, cellWrites, syncLog, lastTake, burstTake,
                   burstSyncDone>>
    /\ BlocksFrame

\* range over a closed and drained rawCh ends: blkCh.Close().
FwdClose ==
    /\ Running
    /\ fwdPc = "recv"
    /\ rawCh = <<>>
    /\ rawClosed
    /\ blkChIn' = "closed"
    /\ fwdPc' = "done"
    /\ fwdBlk' = 0
    /\ UNCHANGED <<panicked, notifVars, blkPc, blkSub, rawCh, rawClosed, blkCh, blk,
                   produced, cellWrites, syncLog, lastTake, burstTake,
                   burstSyncDone>>
    /\ BlocksFrame

\* Mutant of FwdSend: blkCh is an ordinary channel of capacity one, so the
\* send waits while the buffer is full.
FwdSend_Blocking ==
    /\ Running
    /\ fwdPc = "send"
    /\ Len(blkCh) < RingCap
    /\ blkCh' = Append(blkCh, fwdBlk)
    /\ cellWrites' = Append(cellWrites, fwdBlk)
    /\ fwdPc' = "recv"
    /\ UNCHANGED <<panicked, notifVars, blkPc, blkSub, rawCh, rawClosed, fwdBlk,
                   blkChIn, blk, produced, syncLog, lastTake, burstTake,
                   burstSyncDone>>
    /\ BlocksFrame

\* blkCh.In() <- blk: the ring channel takes the block whatever its buffer
\* holds and whatever the loop is doing.
FwdSend ==
    /\ Running
    /\ fwdPc = "send"
    /\ blkCh' = RingAdd(blkCh, fwdBlk)
    /\ cellWrites' = Append(cellWrites, fwdBlk)
    /\ fwdPc' = "recv"
    /\ UNCHANGED <<panicked, notifVars, blkPc, blkSub, rawCh, rawClosed, fwdBlk,
                   blkChIn, blk, produced, syncLog, lastTake, burstTake,
                   burstSyncDone>>
    /\ BlocksFrame

\* sub.Close() of the WatchBlocks subscription: the subscription ends and
\* the channel it delivered on is closed; what the channel still holds can be
\* received.
SubClose ==
    /\ blkSub' = "closed"
    /\ rawClosed' = TRUE

\* Mutant of BlkExit: the loop returns without closing its subscription.
BlkExit_NoClose ==
    /\ blkPc' = "done"
    /\ UNCHANGED <<panicked, notifVars, blkSub, rawCh, rawClosed, fwdPc, fwdBlk,
                   blkCh, blkChIn, blk, produced, cellWrites, syncLog, lastTake,
                   burstTake, burstSyncDone>>

\* The loop returns; the deferred sub.Close() runs.
BlkExit ==
    /\ blkPc' = "done"
    /\ SubClose
    /\ UNCHANGED <<panicked, notifVars, rawCh, fwdPc, fwdBlk, blkCh, blkChIn, blk,
                   produced, cellWrites, syncLog, lastTake, burstTake,
                   burstSyncDone>>

\* select: case <-n.ctx.Done(): return
BlkSelectCtx ==
    /\ Running
    /\ blkPc = "select"
    /\ ctxDone
    /\ BlkExit
    /\ BlocksFrame

\* select: case <-n.stopCh: return
BlkSelectStop ==
    /\ Running
    /\ blkPc = "select"
    /\ stopCh = "closed"
    /\ BlkExit
    /\ BlocksFrame

\* Mutant of BlkSelectClosed: ok is not tested, and the zero value received
\* from the closed channel is passed on as a block.
BlkSelectClosed_NoOkCheck ==
    /\ Running
    /\ blkPc = "select"
    /\ blkChIn = "closed"
    /\ blkCh = <<>>
    /\ syncLog' = Append(syncLog, 0)
    /\ blkPc' = "sync"
    /\ UNCHANGED <<panicked, notifVars, blkSub, rawCh, rawClosed, fwdPc, fwdBlk,
                   blkCh, blkChIn, blk, produced, cellWrites, lastTake, burstTake,
                   burstSyncDone>>
    /\ BlocksFrame

\* select: case rawBlk, ok := <-blkCh.Out() with ok false (the ring channel
\* closes its output once its input is closed and its buffer is drained).
BlkSelectClosed ==
    /\ Running
    /\ blkPc = "select"
    /\ blkChIn = "closed"
    /\ blkCh = <<>>
    /\ BlkExit
    /\ BlocksFrame

\* Mutant of BlkSelectRecv: the block is taken only while no policy push is
\* in flight (the two loops share one call to the hosted runtime at a time).
BlkSelectRecv_AfterPolicyPush ==
    /\ Running
    /\ blkPc = "select"
    /\ blkCh # <<>>
    /\ kmPc # "push"
    /\ blk' = Head(blkCh)
    /\ blkCh' = Tail(blkCh)
    /\ syncLog' = Append(syncLog, Head(blkCh))
    /\ lastTake' = [got |-> Head(blkCh), newest |-> cellWrites[Len(cellWrites)]]
    /\ burstTake' = (burstTake \/ Len(cellWrites) \in {1, 2})
    /\ blkPc' = "sync"
    /\ UNCHANGED <<panicked, notifVars, blkSub, rawCh, rawClosed, fwdPc, fwdBlk,
                   blkChIn, produced, cellWrites, burstSyncDone>>
    /\ BlocksFrame

\* select: case rawBlk, ok := <-blkCh.Out() with a block, followed by the call
\* n.host.ConsensusSync(ctx, uint64(blk.Height)), which is then in flight.
BlkSelectRecv ==
    /\ Running
    /\ blkPc = "select"
    /\ blkCh # <<>>
    /\ blk' = Head(blkCh)
    /\ blkCh' = Tail(blkCh)
    /\ syncLog' = Append(syncLog, Head(blkCh))
    /\ lastTake' = [got |-> Head(blkCh), newest |-> cellWrites[Len(cellWrites)]]
    /\ burstTake' = (burstTake \/ Len(cellWrites) \in {1, 2})
    /\ blkPc' = "sync"
    /\ UNCHANGED <<panicked, notifVars, blkSub, rawCh, rawClosed, fwdPc, fwdBlk,
                   blkChIn, produced, cellWrites, burstSyncDone>>
    /\ BlocksFrame

\* Mutant of BlkSyncReturn: an error of ConsensusSync ends the loop.
BlkSyncReturn_ExitOnError ==
    /\ Running
    /\ blkPc = "sync"
    /\ \/ /\ blkPc' = "select"
          /\ blk' = 0
          /\ burstSyncDone' = (burstSyncDone \/ produced \in {1, 2})
          /\ UNCHANGED <<panicked, notifVars, blkSub, rawCh, rawClosed, fwdPc,
                         fwdBlk, blkCh, blkChIn, produced, cellWrites, syncLog,
                         lastTake, burstTake>>
       \/ BlkExit
    /\ BlocksFrame

\* ConsensusSync returns, with or without an error (an error is logged and
\* the loop continues either way).
BlkSyncReturn ==
    /\ Running
    /\ blkPc = "sync"
    /\ blkPc' = "select"
    /\ blk' = 0
    /\ burstSyncDone' = (burstSyncDone \/ produced \in {1, 2})
    /\ UNCHANGED <<panicked, notifVars, blkSub, rawCh, rawClosed, fwdPc, fwdBlk,
                   blkCh, blkChIn, produced, cellWrites, syncLog, lastTake,
                   burstTake>>
    /\ BlocksFrame

(* ------------------------- watchPolicyUpdates -------------------------- *)

KmIDs == 1..NumKm

\* Kinds of inner subscription: WatchStatuses, WatchEpochs, WatchEvents.
SubKinds == {"status", "epochs", "events"}

\* The nil *keymanager.Status, *node.SGXConstraints and *registry.VersionInfo.
NilStatus == [id |-> Nil, policy |-> Nil]

NilConstraints == [km |-> Nil, policy |-> Nil]

NilVersionInfo == [ver |-> Nil, tee |-> "none"]

\* Registry descriptor updates: the runtime's kind and its KeyManager field.
DescriptorUpdates == [kind : {"compute", "other"}, km : {Nil} \cup KmIDs]

\* No descriptor update has been received.
NoDescriptor == [kind |-> "none", km |-> Nil, was |-> Nil]

\* Key-manager status updates: the key manager's ID and its Policy.
StatusUpdates == [id : KmIDs, policy : 1..NumPolicies]

\* Active deployments of a key-manager runtime: a version and a TEE payload
\* that cbor.Unmarshal decodes into SGX constraints, or fails to.
Deployments == [ver : 1..NumVersions, tee : {"valid", "malformed"}]

\* Results of Registry().GetRuntime for the key manager at an epoch.
RuntimeQueries ==
    {[err |-> TRUE, hw |-> "none", dep |-> NilVersionInfo]}
        \cup [err : {FALSE}, hw : {"sgx", "none"}, dep : Deployments]

\* Host runtime events: Started, Updated, or any other event.
HostEvents == {"started", "updated", "other"}

\* What is kept of the event received last: its type, the ID of a status
\* update, whether Stop had returned, and for an epoch the TEE hardware of
\* the descriptor queried ("unknown" when none was obtained) and whether the
\* deployment's TEE payload was passed to cbor.Unmarshal.
NoEvent == [type |-> "none", arg |-> Nil, late |-> FALSE, hw |-> "unknown",
            decoded |-> FALSE]

outerVars == <<polPc, dscSub, kmRtID, done, innerCancel>>

innerVars == <<kmPc, kmArg, subs, quoteUpdates, st, sc, vi, cur, pend, curPushes,
               latePush, firstFailed, prevKnew>>

PolicyInit ==
    /\ polPc = "idle"
    /\ dscSub = "none"
    /\ kmRtID = Nil
    /\ done = FALSE
    /\ innerCancel = FALSE
    /\ kmPc = "none"
    /\ kmArg = Nil
    /\ subs = [k \in SubKinds |-> {}]
    /\ quoteUpdates = FALSE
    /\ st = NilStatus
    /\ sc = NilConstraints
    /\ vi = NilVersionInfo
    /\ cur = NoEvent
    /\ pend = <<>>
    /\ curPushes = <<>>
    /\ latePush = FALSE
    /\ firstFailed = 0
    /\ prevKnew = FALSE
    /\ stCh = <<>>
    /\ lastDsc = NoDescriptor

\* dscCh, dscSub, err := n.runtime.WatchRegistryDescriptor(); on an error the
\* loop returns.
PolSubscribe ==
    /\ Running
    /\ polPc = "subscribe"
    /\ \/ /\ polPc' = "done"
          /\ UNCHANGED dscSub
       \/ /\ polPc' = "spawn"
          /\ dscSub' = "open"
    /\ UNCHANGED <<panicked, kmRtID, done, innerCancel, innerVars>>
    /\ PolicyFrame

\* One iteration of for !done begins: ctx, cancel := context.WithCancel(n.ctx)
\* and go n.watchKmPolicyUpdates(ctx, kmRtID).
PolSpawn ==
    /\ Running
    /\ polPc = "spawn"
    /\ innerCancel' = FALSE
    /\ kmPc' = "start"
    /\ kmArg' = kmRtID
    /\ polPc' = "select"
    /\ UNCHANGED <<panicked, dscSub, kmRtID, done, subs, quoteUpdates, st, sc, vi,
                   cur, pend, curPushes, latePush, firstFailed, prevKnew>>
    /\ PolicyFrame

\* select: case <-n.ctx.Done(): return true
PolSelectCtx ==
    /\ Running
    /\ polPc = "select"
    /\ ctxDone
    /\ done' = TRUE
    /\ polPc' = "cancel"
    /\ UNCHANGED <<panicked, dscSub, kmRtID, innerCancel, innerVars>>
    /\ PolicyFrame

\* select: case <-n.stopCh: return true
PolSelectStop ==
    /\ Running
    /\ polPc = "select"
    /\ stopCh = "closed"
    /\ done' = TRUE
    /\ polPc' = "cancel"
    /\ UNCHANGED <<panicked, dscSub, kmRtID, innerCancel, innerVars>>
    /\ PolicyFrame

\* select: case rtDsc := <-dscCh.  A runtime that is not a compute runtime
\* ends the loop; an unchanged key manager changes nothing; a changed one is
\* recorded and the iteration returns false.
\* Mutant of Descriptor: an unchanged key manager restarts the inner watch
\* like a changed one.
Descriptor_RestartOnSame(rtDsc) ==
    IF rtDsc.kind # "compute"
    THEN /\ done' = TRUE
         /\ polPc' = "cancel"
         /\ UNCHANGED kmRtID
    ELSE /\ kmRtID' = rtDsc.km
         /\ done' = FALSE
         /\ polPc' = "cancel"

\* Mutant of Descriptor: the kind of the runtime is not looked at.
Descriptor_IgnoreKind(rtDsc) ==
    IF rtDsc.km = kmRtID
    THEN UNCHANGED <<done, polPc, kmRtID>>
    ELSE /\ kmRtID' = rtDsc.km
         /\ done' = FALSE
         /\ polPc' = "cancel"

\* The body of case rtDsc := <-dscCh.
Descriptor(rtDsc) ==
    IF rtDsc.kind # "compute"
    THEN /\ done' = TRUE
         /\ polPc' = "cancel"
         /\ UNCHANGED kmRtID
    ELSE IF rtDsc.km = kmRtID
    THEN UNCHANGED <<done, polPc, kmRtID>>
    ELSE /\ kmRtID' = rtDsc.km
         /\ done' = FALSE
         /\ polPc' = "cancel"

PolRecvDescriptor ==
    /\ Running
    /\ polPc = "select"
    /\ dscSub = "open"
    /\ \E rtDsc \in DescriptorUpdates : Descriptor(rtDsc)
    /\ UNCHANGED <<panicked, dscSub, innerCancel, innerVars>>
    /\ PolicyFrame

\* The same receive, keeping the descriptor update received.
PolTakeDescriptor ==
    /\ Running
    /\ polPc = "select"
    /\ dscSub = "open"
    /\ \E rtDsc \in DescriptorUpdates :
          /\ Descriptor(rtDsc)
          /\ lastDsc' = [kind |-> rtDsc.kind, km |-> rtDsc.km, was |-> kmRtID]
    /\ UNCHANGED <<panicked, dscSub, innerCancel, innerVars>>
    /\ UNCHANGED <<nodeVars, notifVars, blockVars, handlerVars, stCh, provRts>>

\* The iteration returns: the deferred cancel() runs first.
PolCancel ==
    /\ Running
    /\ polPc = "cancel"
    /\ innerCancel' = TRUE
    /\ polPc' = "wait"
    /\ UNCHANGED <<panicked, dscSub, kmRtID, done, innerVars>>
    /\ PolicyFrame

\* Mutant of PolWait: the iteration does not wait for the inner watch.
PolWait_NoWait ==
    /\ Running
    /\ polPc = "wait"
    /\ polPc' = IF done THEN "exit" ELSE "spawn"
    /\ UNCHANGED <<panicked, dscSub, kmRtID, done, innerCancel, innerVars>>
    /\ PolicyFrame

\* Then the deferred wg.Wait() returns once the inner watch has returned, and
\* the for !done loop goes on or ends.
PolWait ==
    /\ Running
    /\ polPc = "wait"
    /\ kmPc = "done"
    /\ polPc' = IF done THEN "exit" ELSE "spawn"
    /\ UNCHANGED <<panicked, dscSub, kmRtID, done, innerCancel, innerVars>>
    /\ PolicyFrame

\* watchPolicyUpdates returns: the deferred dscSub.Close() runs.
PolExit ==
    /\ Running
    /\ polPc = "exit"
    /\ dscSub' = "closed"
    /\ polPc' = "done"
    /\ UNCHANGED <<panicked, kmRtID, done, innerCancel, innerVars>>
    /\ PolicyFrame

(* ------------------------ watchKmPolicyUpdates ------------------------- *)

\* ctx.Done() of the context the inner watch was given: canceled by the
\* iteration's cancel() or with its parent n.ctx.
InnerCtxDone == innerCancel \/ ctxDone

Open(kind) == subs' = [subs EXCEPT ![kind] = @ \cup {kmArg}]

Close(kind) == subs' = [subs EXCEPT ![kind] = @ \ {kmArg}]

\* if kmRtID == nil { return }
KmStart ==
    /\ Running
    /\ kmPc = "start"
    /\ kmPc' = IF kmArg = Nil THEN "done" ELSE "subStatus"
    /\ UNCHANGED <<panicked, outerVars, kmArg, subs, quoteUpdates, st, sc, vi, cur,
                   pend, curPushes, latePush, firstFailed, prevKnew>>
    /\ PolicyFrame

\* stCh, stSub := n.consensus.KeyManager().WatchStatuses(); defer stSub.Close()
KmSubStatus ==
    /\ Running
    /\ kmPc = "subStatus"
    /\ Open("status")
    /\ kmPc' = "subEpochs"
    /\ UNCHANGED <<panicked, outerVars, kmArg, quoteUpdates, st, sc, vi, cur, pend,
                   curPushes, latePush, firstFailed, prevKnew>>
    /\ PolicyFrame

\* epoCh, sub, err := n.consensus.Beacon().WatchEpochs(ctx); on an error
\* return (stSub is closed by its defer); defer sub.Close()
KmSubEpochs ==
    /\ Running
    /\ kmPc = "subEpochs"
    /\ \/ /\ Open("epochs")
          /\ kmPc' = "subEvents"
       \/ /\ kmPc' = "closeStatus"
          /\ UNCHANGED subs
    /\ UNCHANGED <<panicked, outerVars, kmArg, quoteUpdates, st, sc, vi, cur, pend,
                   curPushes, latePush, firstFailed, prevKnew>>
    /\ PolicyFrame

\* Mutant of KmSubEvents: on an error the epoch subscription is left open.
KmSubEvents_LeakEpochs ==
    /\ Running
    /\ kmPc = "subEvents"
    /\ \/ /\ Open("events")
          /\ kmPc' = "getInfo"
       \/ /\ kmPc' = "closeStatus"
          /\ UNCHANGED subs
    /\ UNCHANGED <<panicked, outerVars, kmArg, quoteUpdates, st, sc, vi, cur, pend,
                   curPushes, latePush, firstFailed, prevKnew>>
    /\ PolicyFrame

\* evCh, evSub, err := n.host.WatchEvents(n.ctx); on an error return;
\* defer evSub.Close()
KmSubEvents ==
    /\ Running
    /\ kmPc = "subEvents"
    /\ \/ /\ Open("events")
          /\ kmPc' = "getInfo"
       \/ /\ kmPc' = "closeEpochs"
          /\ UNCHANGED subs
    /\ UNCHANGED <<panicked, outerVars, kmArg, quoteUpdates, st, sc, vi, cur, pend,
                   curPushes, latePush, firstFailed, prevKnew>>
    /\ PolicyFrame

\* rtInfo, err := n.host.GetInfo(ctx); on an error return
KmGetInfo ==
    /\ Running
    /\ kmPc = "getInfo"
    /\ \/ /\ \E f \in BOOLEAN : quoteUpdates' = f
          /\ kmPc' = "select"
       \/ /\ kmPc' = "closeEvents"
          /\ UNCHANGED quoteUpdates
    /\ UNCHANGED <<panicked, outerVars, kmArg, subs, st, sc, vi, cur, pend,
                   curPushes, latePush, firstFailed, prevKnew>>
    /\ PolicyFrame

\* Mutant of KmSelectCtx: st, sc and vi outlive the invocation, as if they
\* were declared in watchPolicyUpdates.
KmSelectCtx_KeepsState ==
    /\ Running
    /\ kmPc = "select"
    /\ InnerCtxDone
    /\ kmPc' = "closeEvents"
    /\ cur' = NoEvent
    /\ pend' = <<>>
    /\ curPushes' = <<>>
    /\ firstFailed' = 0
    /\ prevKnew' = (prevKnew \/ st # NilStatus \/ sc # NilConstraints)
    /\ UNCHANGED <<panicked, outerVars, kmArg, subs, quoteUpdates, st, sc, vi,
                   latePush>>
    /\ PolicyFrame

\* select: case <-ctx.Done(): return.  st, sc and vi are locals of the
\* invocation, declared nil in it: they cease to exist here, with what was
\* kept of its last event, and the next invocation has them nil again.
KmSelectCtx ==
    /\ Running
    /\ kmPc = "select"
    /\ InnerCtxDone
    /\ kmPc' = "closeEvents"
    /\ st' = NilStatus
    /\ sc' = NilConstraints
    /\ vi' = NilVersionInfo
    /\ cur' = NoEvent
    /\ pend' = <<>>
    /\ curPushes' = <<>>
    /\ firstFailed' = 0
    /\ prevKnew' = (prevKnew \/ st # NilStatus \/ sc # NilConstraints)
    /\ UNCHANGED <<panicked, outerVars, kmArg, subs, quoteUpdates, latePush>>
    /\ PolicyFrame

\* What n.host.Call returns as its error: nil, a failure of the runtime, or
\* the expiry of the notifyTimeout context.
CallErrors == {"nil", "failed", "timeout"}

\* prevKnew after the handling of an event: it ends when the invocation
\* has learned a status or SGX constraints.
NoneLearnedSince ==
    prevKnew' = (prevKnew /\ st' = NilStatus /\ sc' = NilConstraints)

\* The inner watch goes on to make the pushes ps for the event ev it has
\* received, or back to its select when there are none.
Handle(ev, ps) ==
    /\ cur' = [ev EXCEPT !.late = (stopCh = "closed")]
    /\ pend' = ps
    /\ curPushes' = <<>>
    /\ firstFailed' = 0
    /\ kmPc' = IF ps = <<>> THEN "select" ELSE "push"

PolicyPush(status) == [kind |-> "policy", km |-> status.id, val |-> status.policy]

QuotePush(constraints) ==
    [kind |-> "quotePolicy", km |-> constraints.km, val |-> constraints.policy]

\* Mutant of RecvStatus: the status is not compared with the tracked id.
RecvStatus_NoFilter(newSt) ==
    LET ev == [NoEvent EXCEPT !.type = "status", !.arg = newSt.id]
    IN  /\ st' = newSt
        /\ Handle(ev, <<PolicyPush(newSt)>>)

\* The body of case newSt := <-stCh.  A status of another key manager is
\* ignored; otherwise st = newSt and n.updateKeyManagerPolicy(ctx, st.Policy).
RecvStatus(newSt) ==
    LET ev == [NoEvent EXCEPT !.type = "status", !.arg = newSt.id]
    IN  IF newSt.id # kmArg
        THEN /\ Handle(ev, <<>>)
             /\ UNCHANGED st
        ELSE /\ st' = newSt
             /\ Handle(ev, <<PolicyPush(newSt)>>)

\* select: case newSt := <-stCh, with nothing said about what the stream
\* holds: any status update may be the one received next.
KmRecvStatus ==
    /\ Running
    /\ kmPc = "select"
    /\ \E newSt \in StatusUpdates : RecvStatus(newSt)
    /\ UNCHANGED <<panicked, outerVars, kmArg, subs, quoteUpdates, sc, vi, latePush>>
    /\ NoneLearnedSince
    /\ PolicyFrame

\* The key-manager backend publishes a status update: it is appended to what
\* the open status subscription holds, behind the updates not yet received.
StatusEmit ==
    /\ Running
    /\ subs["status"] # {}
    /\ Len(stCh) < StCap
    /\ \E newSt \in StatusUpdates : stCh' = Append(stCh, newSt)
    /\ UNCHANGED <<panicked, policyVars>>
    /\ StreamFrame

\* select: case newSt := <-stCh, with the stream explicit: the update
\* received is the oldest one not yet received.
KmTakeStatus ==
    /\ Running
    /\ kmPc = "select"
    /\ stCh # <<>>
    /\ RecvStatus(Head(stCh))
    /\ stCh' = Tail(stCh)
    /\ UNCHANGED <<panicked, outerVars, kmArg, subs, quoteUpdates, sc, vi, latePush>>
    /\ NoneLearnedSince
    /\ StreamFrame

\* vi.Equal(cmp) of registry.VersionInfo.
VersionInfoEqual(a, b) == a = b

\* Mutant of KmRecvEpoch: vi is assigned only once the payload has decoded.
KmRecvEpoch_ViAfterDecode ==
    /\ Running
    /\ kmPc = "select"
    /\ \E dsc \in RuntimeQueries :
          LET ev == [NoEvent EXCEPT !.type = "epoch"]
              queried == [ev EXCEPT !.hw = dsc.hw]
              decoded == [queried EXCEPT !.decoded = TRUE]
              newSc == [km |-> kmArg, policy |-> dsc.dep.ver]
          IN  IF ~quoteUpdates \/ dsc.err
              THEN /\ Handle(ev, <<>>)
                   /\ UNCHANGED <<vi, sc>>
              ELSE IF dsc.hw # "sgx" \/ VersionInfoEqual(dsc.dep, vi)
              THEN /\ Handle(queried, <<>>)
                   /\ UNCHANGED <<vi, sc>>
              ELSE IF dsc.dep.tee = "malformed"
              THEN /\ Handle(decoded, <<>>)
                   /\ UNCHANGED <<vi, sc>>
              ELSE /\ vi' = dsc.dep
                   /\ sc' = newSc
                   /\ Handle(decoded, <<QuotePush(newSc)>>)
    /\ UNCHANGED <<panicked, outerVars, kmArg, subs, quoteUpdates, st, latePush>>
    /\ NoneLearnedSince
    /\ PolicyFrame

\* Mutant of KmRecvEpoch: the active deployment is not compared with vi.
KmRecvEpoch_NoVersionCheck ==
    /\ Running
    /\ kmPc = "select"
    /\ \E dsc \in RuntimeQueries :
          LET ev == [NoEvent EXCEPT !.type = "epoch"]
              queried == [ev EXCEPT !.hw = dsc.hw]
              decoded == [queried EXCEPT !.decoded = TRUE]
              newSc == [km |-> kmArg, policy |-> dsc.dep.ver]
          IN  IF ~quoteUpdates \/ dsc.err
              THEN /\ Handle(ev, <<>>)
                   /\ UNCHANGED <<vi, sc>>
              ELSE IF dsc.hw # "sgx"
              THEN /\ Handle(queried, <<>>)
                   /\ UNCHANGED <<vi, sc>>
              ELSE IF dsc.dep.tee = "malformed"
              THEN /\ vi' = dsc.dep
                   /\ Handle(decoded, <<>>)
                   /\ UNCHANGED sc
              ELSE /\ vi' = dsc.dep
                   /\ sc' = newSc
                   /\ Handle(decoded, <<QuotePush(newSc)>>)
    /\ UNCHANGED <<panicked, outerVars, kmArg, subs, quoteUpdates, st, latePush>>
    /\ NoneLearnedSince
    /\ PolicyFrame

\* select: case epoch := <-epoCh.  The quote policy is pushed when the
\* runtime supports it, the key manager's descriptor can be queried and is an
\* SGX one, its active deployment differs from vi, and the deployment's TEE
\* payload decodes.  The queried descriptor always has a deployment active at
\* the epoch; a descriptor without one is not among RuntimeQueries.
KmRecvEpoch ==
    /\ Running
    /\ kmPc = "select"
    /\ \E dsc \in RuntimeQueries :
          LET ev == [NoEvent EXCEPT !.type = "epoch"]
              queried == [ev EXCEPT !.hw = dsc.hw]
              decoded == [queried EXCEPT !.decoded = TRUE]
              newSc == [km |-> kmArg, policy |-> dsc.dep.ver]
          IN  IF ~quoteUpdates \/ dsc.err
              THEN /\ Handle(ev, <<>>)
                   /\ UNCHANGED <<vi, sc>>
              ELSE IF dsc.hw # "sgx" \/ VersionInfoEqual(dsc.dep, vi)
              THEN /\ Handle(queried, <<>>)
                   /\ UNCHANGED <<vi, sc>>
              ELSE IF dsc.dep.tee = "malformed"
              THEN /\ vi' = dsc.dep
                   /\ Handle(decoded, <<>>)
                   /\ UNCHANGED sc
              ELSE /\ vi' = dsc.dep
                   /\ sc' = newSc
                   /\ Handle(decoded, <<QuotePush(newSc)>>)
    /\ UNCHANGED <<panicked, outerVars, kmArg, subs, quoteUpdates, st, latePush>>
    /\ NoneLearnedSince
    /\ PolicyFrame

\* Mutant of ReplayPushes: only the policy is pushed again.
ReplayPushes_PolicyOnly ==
    IF st # NilStatus THEN <<PolicyPush(st)>> ELSE <<>>

\* Mutant of ReplayPushes: the quote policy is pushed before the policy.
ReplayPushes_QuoteFirst ==
    (IF sc # NilConstraints THEN <<QuotePush(sc)>> ELSE <<>>)
        \o (IF st # NilStatus THEN <<PolicyPush(st)>> ELSE <<>>)

\* The pushes a Started or Updated host event leads to: the policy if a
\* status is known, then the quote policy if SGX constraints are known.
ReplayPushes ==
    (IF st # NilStatus THEN <<PolicyPush(st)>> ELSE <<>>)
        \o (IF sc # NilConstraints THEN <<QuotePush(sc)>> ELSE <<>>)

\* select: case ev := <-evCh.  Events other than Started and Updated are
\* ignored; otherwise the known policies are pushed again.
KmRecvEvent ==
    /\ Running
    /\ kmPc = "select"
    /\ \E e \in HostEvents :
          LET ev == [NoEvent EXCEPT !.type = e]
          IN  IF e \notin {"started", "updated"}
              THEN Handle(ev, <<>>)
              ELSE Handle(ev, ReplayPushes)
    /\ UNCHANGED <<panicked, outerVars, kmArg, subs, quoteUpdates, st, sc, vi,
                   latePush, prevKnew>>
    /\ PolicyFrame

\* Mutant of KmPush: a push that failed is made again.
KmPush_Retry ==
    /\ Running
    /\ kmPc = "push"
    /\ curPushes' = Append(curPushes, Head(pend))
    /\ latePush' = (latePush \/ cur.late)
    /\ \E err \in CallErrors :
          IF err = "nil"
          THEN /\ pend' = Tail(pend)
               /\ kmPc' = IF Tail(pend) = <<>> THEN "select" ELSE "push"
               /\ UNCHANGED firstFailed
          ELSE /\ firstFailed' = IF firstFailed = 0 THEN Len(curPushes) + 1
                                                    ELSE firstFailed
               /\ UNCHANGED <<pend, kmPc>>
    /\ UNCHANGED <<panicked, outerVars, kmArg, subs, quoteUpdates, st, sc, vi, cur,
                   prevKnew>>
    /\ PolicyFrame

\* updateKeyManagerPolicy / updateKeyManagerQuotePolicy: one n.host.Call,
\* bounded by notifyTimeout.  Its error (a failure or the timeout) is logged
\* and the function returns either way; nothing is retried.
KmPush ==
    /\ Running
    /\ kmPc = "push"
    /\ \E err \in CallErrors :
          firstFailed' = IF err # "nil" /\ firstFailed = 0 THEN Len(curPushes) + 1
                                                           ELSE firstFailed
    /\ curPushes' = Append(curPushes, Head(pend))
    /\ pend' = Tail(pend)
    /\ latePush' = (latePush \/ cur.late)
    /\ kmPc' = IF Tail(pend) = <<>> THEN "select" ELSE "push"
    /\ UNCHANGED <<panicked, outerVars, kmArg, subs, quoteUpdates, st, sc, vi, cur,
                   prevKnew>>
    /\ PolicyFrame

\* The inner watch returns; its defers run last in, first out: evSub.Close()
KmCloseEvents ==
    /\ Running
    /\ kmPc = "closeEvents"
    /\ Close("events")
    /\ kmPc' = "closeEpochs"
    /\ UNCHANGED <<panicked, outerVars, kmArg, quoteUpdates, st, sc, vi, cur, pend,
                   curPushes, latePush, firstFailed, prevKnew>>
    /\ PolicyFrame

\* sub.Close()
KmCloseEpochs ==
    /\ Running
    /\ kmPc = "closeEpochs"
    /\ Close("epochs")
    /\ kmPc' = "closeStatus"
    /\ UNCHANGED <<panicked, outerVars, kmArg, quoteUpdates, st, sc, vi, cur, pend,
                   curPushes, latePush, firstFailed, prevKnew>>
    /\ PolicyFrame

\* stSub.Close(), which drops what the subscription still holds, and the
\* goroutine's wg.Done()
KmCloseStatus ==
    /\ Running
    /\ kmPc = "closeStatus"
    /\ Close("status")
    /\ stCh' = <<>>
    /\ kmPc' = "done"
    /\ UNCHANGED <<panicked, outerVars, kmArg, quoteUpdates, st, sc, vi, cur, pend,
                   curPushes, latePush, firstFailed, prevKnew>>
    /\ StreamFrame

(* --------------------------- runtimeHostHandler ------------------------ *)

\* errMethodNotSupported and errEndpointNotSupported
errMethodNotSupported == "method not supported"

errEndpointNotSupported == "endpoint not supported"

\* A nil pointer: an unpopulated field of an envelope, a nil result.
Absent == [absent |-> TRUE]

\* A request that carries no field (HostFetchGenesisHeightRequest,
\* HostIdentityRequest) and the response protocol.Empty.
Empty == [empty |-> TRUE]

\* The request variants of protocol.Body, in the order Handle's switch tests
\* them.  The response variant of a request variant goes by the same name.
VariantOrder ==
    <<"HostRPCCall", "HostStorageSync", "HostLocalStorageGet",
      "HostLocalStorageSet", "HostFetchConsensusBlock",
      "HostFetchConsensusEvents", "HostFetchGenesisHeight", "HostFetchTxBatch",
      "HostProveFreshness", "HostIdentity">>

Variants == {VariantOrder[i] : i \in 1..Len(VariantOrder)}

\* runtimeKeymanager.EnclaveRPCEndpoint
EnclaveRPCEndpoint == "key-manager"

\* The sync methods of a HostStorageSyncRequest, in the order
\* handleHostStorageSync tests them.
SyncMethodOrder == <<"SyncGet", "SyncGetPrefixes", "SyncIterate">>

\* protocol.EventKindStaking, EventKindRegistry, EventKindRootHash,
\* EventKindGovernance
EventKinds == {"staking", "registry", "roothash", "governance"}

\* Keys and values of the runtime's local storage; block heights (a height is
\* below 2^63, where int64() and uint64() keep its value).
Keys == {1}

Values == {1, 2}

Heights == {1, 2}

\* Sequences over S of length at most n.
SeqsUpTo(S, n) == UNION {[1..k -> S] : k \in 0..n}

\* The lists of events a consensus backend can return for a height.
EventLists == SeqsUpTo(1..MaxEvents, MaxEvents)

\* The payloads a populated request variant can carry.
Payloads(v) ==
    CASE v = "HostRPCCall" -> [endpoint : {EnclaveRPCEndpoint, "other"}]
      [] v = "HostStorageSync" ->
            [endpoint : {"runtime", "consensus", "other"},
             methods : SUBSET {"SyncGet", "SyncGetPrefixes", "SyncIterate"}]
      [] v = "HostLocalStorageGet" -> [key : Keys]
      [] v = "HostLocalStorageSet" -> [key : Keys, value : Values]
      [] v = "HostFetchConsensusBlock" -> [height : Heights]
      [] v = "HostFetchConsensusEvents" ->
            [height : Heights, kind : EventKinds \cup {"other"}]
      [] v = "HostFetchGenesisHeight" -> {Empty}
      [] v = "HostFetchTxBatch" -> [offset : 0..MaxPool, limit : 0..MaxLimit]
      [] v = "HostProveFreshness" -> [blob : {1}]
      [] v = "HostIdentity" -> {Empty}

\* The fields of the variants from the i-th on, with at most n populated.
RECURSIVE Fields(_, _)
Fields(i, n) ==
    IF i > Len(VariantOrder)
    THEN {<<>>}
    ELSE {<<Absent>> \o r : r \in Fields(i + 1, n)}
         \cup (IF n = 0
               THEN {}
               ELSE {<<p>> \o r : p \in Payloads(VariantOrder[i]),
                                  r \in Fields(i + 1, n - 1)})

\* protocol.Body as a request: every variant's field, Absent or a payload.
Bodies ==
    {[v \in Variants |-> f[CHOOSE i \in 1..Len(VariantOrder) : VariantOrder[i] = v]]
        : f \in Fields(1, MaxVariants)}

\* var rsp protocol.Body
EmptyBody == [v \in Variants |-> Absent]

\* The populated fields of an envelope.
Populated(body) == {v \in Variants : body[v] # Absent}

\* One operation invoked on a collaborator, with its argument and result.
\* The result of a failed operation is Absent.
Call(obj, op, arg, res, ok) ==
    [obj |-> obj, op |-> op, arg |-> [val |-> arg],
     res |-> IF ok THEN [val |-> res] ELSE Absent, ok |-> ok]

\* What a handler returns, the collaborator operations it invoked and the
\* local store it leaves.
Outcome(rsp, err, calls, store) ==
    [rsp |-> rsp, err |-> err, calls |-> calls, store |-> store]

\* cbor.FixSliceForSerde: a nil slice becomes an empty one.
FixSliceForSerde(b) == IF b = "nil" THEN "empty" ELSE b

\* Mutant of handleHostRPCCall: the endpoint is not looked at.
handleHostRPCCall_AnyEndpoint(rq, store) ==
    LET get == Call("env", "GetKeyManagerClient", Empty, "kmCli", TRUE)
    IN  {Outcome(Absent, "no key manager client",
                 <<Call("env", "GetKeyManagerClient", Empty, Absent, FALSE)>>,
                 store)}
        \cup {Outcome(Absent, "enclave call failed",
                      <<get, Call("kmCli", "CallEnclave", rq, Absent, FALSE)>>,
                      store)}
        \cup {Outcome([response |-> FixSliceForSerde(res)], "nil",
                      <<get, Call("kmCli", "CallEnclave", rq, res, TRUE)>>,
                      store) : res \in {"nil", "bytes"}}

\* handleHostRPCCall
handleHostRPCCall(rq, store) ==
    IF rq.endpoint = EnclaveRPCEndpoint
    THEN LET get == Call("env", "GetKeyManagerClient", Empty, "kmCli", TRUE)
         IN  {Outcome(Absent, "no key manager client",
                      <<Call("env", "GetKeyManagerClient", Empty, Absent, FALSE)>>,
                      store)}
             \cup {Outcome(Absent, "enclave call failed",
                           <<get, Call("kmCli", "CallEnclave", rq, Absent, FALSE)>>,
                           store)}
             \cup {Outcome([response |-> FixSliceForSerde(res)], "nil",
                           <<get, Call("kmCli", "CallEnclave", rq, res, TRUE)>>,
                           store) : res \in {"nil", "bytes"}}
    ELSE {Outcome(Absent, errEndpointNotSupported, <<>>, store)}

\* The read syncers the endpoint of a storage-sync request can resolve to:
\* h.runtime.Storage(), which is nil for a runtime without storage, or
\* h.consensus.State().
ReadSyncers(endpoint) ==
    CASE endpoint = "runtime" -> {"nil", "runtime.Storage"}
      [] endpoint = "consensus" -> {"consensus.State"}
      [] OTHER -> {}

\* rs = h.runtime.Storage() or rs = h.consensus.State()
GetSyncer(endpoint, rs) ==
    IF endpoint = "runtime"
    THEN Call("runtime", "Storage", Empty, rs, TRUE)
    ELSE Call("consensus", "State", Empty, rs, TRUE)

\* The first of SyncGet, SyncGetPrefixes, SyncIterate that is populated.
FirstSyncMethod(methods) ==
    SyncMethodOrder[CHOOSE j \in 1..Len(SyncMethodOrder) :
                        /\ SyncMethodOrder[j] \in methods
                        /\ \A k \in 1..(j - 1) : SyncMethodOrder[k] \notin methods]

\* Mutant of handleHostStorageSync: the method is looked at before the
\* endpoint.
handleHostStorageSync_MethodFirst(rq, store) ==
    IF rq.methods = {}
    THEN {Outcome(Absent, errMethodNotSupported, <<>>, store)}
    ELSE IF rq.endpoint \notin {"runtime", "consensus"}
    THEN {Outcome(Absent, errEndpointNotSupported, <<>>, store)}
    ELSE UNION {
        LET get == GetSyncer(rq.endpoint, rs)
            m == FirstSyncMethod(rq.methods)
        IN  IF rs = "nil"
            THEN {Outcome(Absent, errEndpointNotSupported, <<get>>, store)}
            ELSE {Outcome(Absent, "sync failed",
                          <<get, Call(rs, m, rq, Absent, FALSE)>>, store),
                  Outcome([proofResponse |-> <<rs, m>>], "nil",
                          <<get, Call(rs, m, rq, <<rs, m>>, TRUE)>>, store)}
        : rs \in ReadSyncers(rq.endpoint)}

\* handleHostStorageSync: the endpoint selects the read syncer, then the
\* first populated method is called on it.
handleHostStorageSync(rq, store) ==
    IF rq.endpoint \notin {"runtime", "consensus"}
    THEN {Outcome(Absent, errEndpointNotSupported, <<>>, store)}
    ELSE UNION {
        LET get == GetSyncer(rq.endpoint, rs)
        IN  IF rs = "nil"
            THEN {Outcome(Absent, errEndpointNotSupported, <<get>>, store)}
            ELSE IF rq.methods = {}
            THEN {Outcome(Absent, errMethodNotSupported, <<get>>, store)}
            ELSE LET m == FirstSyncMethod(rq.methods)
                 IN  {Outcome(Absent, "sync failed",
                              <<get, Call(rs, m, rq, Absent, FALSE)>>, store),
                      Outcome([proofResponse |-> <<rs, m>>], "nil",
                              <<get, Call(rs, m, rq, <<rs, m>>, TRUE)>>, store)}
        : rs \in ReadSyncers(rq.endpoint)}

\* handleHostLocalStorageGet
handleHostLocalStorageGet(rq, store) ==
    {Outcome(Absent, "local storage get failed",
             <<Call("runtime.LocalStorage", "Get", rq.key, Absent, FALSE)>>, store),
     Outcome([value |-> store[rq.key]], "nil",
             <<Call("runtime.LocalStorage", "Get", rq.key, store[rq.key], TRUE)>>,
             store)}

\* Mutant of handleHostLocalStorageSet: a failed Set is tried once more.
handleHostLocalStorageSet_Retry(rq, store) ==
    {Outcome(Empty, "nil",
             <<Call("runtime.LocalStorage", "Set", <<rq.key, rq.value>>, Absent,
                    FALSE),
               Call("runtime.LocalStorage", "Set", <<rq.key, rq.value>>, Empty,
                    TRUE)>>,
             [store EXCEPT ![rq.key] = rq.value]),
     Outcome(Empty, "nil",
             <<Call("runtime.LocalStorage", "Set", <<rq.key, rq.value>>, Empty,
                    TRUE)>>,
             [store EXCEPT ![rq.key] = rq.value])}

\* handleHostLocalStorageSet
handleHostLocalStorageSet(rq, store) ==
    {Outcome(Absent, "local storage set failed",
             <<Call("runtime.LocalStorage", "Set", <<rq.key, rq.value>>, Absent,
                    FALSE)>>, store),
     Outcome(Empty, "nil",
             <<Call("runtime.LocalStorage", "Set", <<rq.key, rq.value>>, Empty,
                    TRUE)>>,
             [store EXCEPT ![rq.key] = rq.value])}

\* handleHostFetchConsensusBlock
handleHostFetchConsensusBlock(rq, store) ==
    LET get == Call("env", "GetLightClient", Empty, "lc", TRUE)
    IN  {Outcome(Absent, "no light client",
                 <<Call("env", "GetLightClient", Empty, Absent, FALSE)>>, store),
         Outcome(Absent, "light block fetch failure",
                 <<get, Call("lc", "GetLightBlock", rq.height, Absent, FALSE)>>,
                 store),
         Outcome([block |-> [height |-> rq.height]], "nil",
                 <<get, Call("lc", "GetLightBlock", rq.height,
                             [height |-> rq.height], TRUE)>>, store)}

\* &consensusResults.Event{<Kind>: ev}: only the field of the kind is set.
Event(kind, ev) == [k \in EventKinds |-> IF k = kind THEN ev ELSE Nil]

\* for _, ev := range evs { out = append(out, &consensusResults.Event{...}) }
RECURSIVE WrapEvents(_, _)
WrapEvents(kind, evs) ==
    IF evs = <<>>
    THEN <<>>
    ELSE <<Event(kind, Head(evs))>> \o WrapEvents(kind, Tail(evs))

\* One case of handleHostFetchConsensusEvents: query the backend and wrap
\* what it returned as events of the given kind.
FetchEvents(backend, kind, rq, store) ==
    {Outcome(Absent, "get events failed",
             <<Call(backend, "GetEvents", rq.height, Absent, FALSE)>>, store)}
    \cup {Outcome([events |-> WrapEvents(kind, evs)], "nil",
                  <<Call(backend, "GetEvents", rq.height, evs, TRUE)>>, store)
            : evs \in EventLists}

\* Mutant of handleHostFetchConsensusEvents: root-hash events are wrapped as
\* registry events.
handleHostFetchConsensusEvents_Mistagged(rq, store) ==
    CASE rq.kind = "staking" -> FetchEvents("consensus.Staking", "staking", rq, store)
      [] rq.kind = "registry" -> FetchEvents("consensus.Registry", "registry", rq, store)
      [] rq.kind = "roothash" -> FetchEvents("consensus.RootHash", "registry", rq, store)
      [] rq.kind = "governance" ->
            FetchEvents("consensus.Governance", "governance", rq, store)
      [] OTHER -> {Outcome(Absent, errMethodNotSupported, <<>>, store)}

\* handleHostFetchConsensusEvents
handleHostFetchConsensusEvents(rq, store) ==
    CASE rq.kind = "staking" -> FetchEvents("consensus.Staking", "staking", rq, store)
      [] rq.kind = "registry" -> FetchEvents("consensus.Registry", "registry", rq, store)
      [] rq.kind = "roothash" -> FetchEvents("consensus.RootHash", "roothash", rq, store)
      [] rq.kind = "governance" ->
            FetchEvents("consensus.Governance", "governance", rq, store)
      [] OTHER -> {Outcome(Absent, errMethodNotSupported, <<>>, store)}

\* handleHostFetchGenesisHeight
handleHostFetchGenesisHeight(rq, store) ==
    {Outcome(Absent, "no genesis document",
             <<Call("consensus", "GetGenesisDocument", Empty, Absent, FALSE)>>,
             store)}
    \cup {Outcome([height |-> h], "nil",
                  <<Call("consensus", "GetGenesisDocument", Empty,
                         [height |-> h], TRUE)>>, store) : h \in Heights}

\* The transaction at position i (from 0) of the pool, and its Raw().
Tx(i) == [hash |-> i, raw |-> 100 + i]

Raw(tx) == tx.raw

\* A transaction pool holding n transactions, in pool order.
Pool(n) == [i \in 1..n |-> Tx(i - 1)]

\* txPool.GetSchedulingExtra(offset, limit): the transactions at positions
\* offset, ..., offset + limit - 1 of the pool, as far as the pool has them.
GetSchedulingExtra(pool, offset, limit) ==
    SubSeq(pool, offset + 1,
           IF offset + limit < Len(pool) THEN offset + limit ELSE Len(pool))

\* for _, tx := range batch { raw = append(raw, tx.Raw()) }
RECURSIVE RawBatch(_)
RawBatch(batch) ==
    IF batch = <<>> THEN <<>> ELSE <<Raw(Head(batch))>> \o RawBatch(Tail(batch))

\* Mutant of handleHostFetchTxBatch: the loop skips the last transaction of
\* the batch.
handleHostFetchTxBatch_DropLast(rq, store) ==
    {Outcome(Absent, "no transaction pool",
             <<Call("env", "GetTxPool", Empty, Absent, FALSE)>>, store)}
    \cup {LET pool == Pool(n)
              batch == GetSchedulingExtra(pool, rq.offset, rq.limit)
          IN  Outcome([batch |-> RawBatch(SubSeq(batch, 1, Len(batch) - 1))], "nil",
                      <<Call("env", "GetTxPool", Empty, pool, TRUE),
                        Call("txPool", "GetSchedulingExtra",
                             <<rq.offset, rq.limit>>, batch, TRUE)>>, store)
            : n \in 0..MaxPool}

\* handleHostFetchTxBatch
handleHostFetchTxBatch(rq, store) ==
    {Outcome(Absent, "no transaction pool",
             <<Call("env", "GetTxPool", Empty, Absent, FALSE)>>, store)}
    \cup {LET pool == Pool(n)
              batch == GetSchedulingExtra(pool, rq.offset, rq.limit)
          IN  Outcome([batch |-> RawBatch(batch)], "nil",
                      <<Call("env", "GetTxPool", Empty, pool, TRUE),
                        Call("txPool", "GetSchedulingExtra",
                             <<rq.offset, rq.limit>>, batch, TRUE)>>, store)
            : n \in 0..MaxPool}

\* registry.NewProveFreshnessTx(0, nil, rq.Blob)
NewProveFreshnessTx(blob) == [nonce |-> 0, fee |-> Nil, body |-> blob]

\* handleHostProveFreshness
handleHostProveFreshness(rq, store) ==
    LET get == Call("env", "GetNodeIdentity", Empty, "identity", TRUE)
        tx == NewProveFreshnessTx(rq.blob)
    IN  {Outcome(Absent, "no node identity",
                 <<Call("env", "GetNodeIdentity", Empty, Absent, FALSE)>>, store),
         Outcome(Absent, "sign and submit failed",
                 <<get, Call("consensus", "SignAndSubmitTxWithProof", tx, Absent,
                             FALSE)>>, store),
         Outcome([signedTx |-> [signed |-> tx], proof |-> [of |-> tx]], "nil",
                 <<get, Call("consensus", "SignAndSubmitTxWithProof", tx,
                             <<[signed |-> tx], [of |-> tx]>>, TRUE)>>, store)}

\* handleHostIdentity
handleHostIdentity(rq, store) ==
    {Outcome(Absent, "no node identity",
             <<Call("env", "GetNodeIdentity", Empty, Absent, FALSE)>>, store),
     Outcome([nodeID |-> "identity.NodeSigner.Public"], "nil",
             <<Call("env", "GetNodeIdentity", Empty, "identity", TRUE)>>, store)}

\* The first populated request variant in the order of Handle's switch, or
\* "none".
Dispatched(rq) ==
    IF Populated(rq) = {}
    THEN "none"
    ELSE VariantOrder[CHOOSE i \in 1..Len(VariantOrder) :
                          /\ VariantOrder[i] \in Populated(rq)
                          /\ \A j \in 1..(i - 1) : VariantOrder[j] \notin Populated(rq)]

\* The handler of a request variant, applied to the variant's field.
SubHandler(v, rq, store) ==
    CASE v = "HostRPCCall" -> handleHostRPCCall(rq, store)
      [] v = "HostStorageSync" -> handleHostStorageSync(rq, store)
      [] v = "HostLocalStorageGet" -> handleHostLocalStorageGet(rq, store)
      [] v = "HostLocalStorageSet" -> handleHostLocalStorageSet(rq, store)
      [] v = "HostFetchConsensusBlock" -> handleHostFetchConsensusBlock(rq, store)
      [] v = "HostFetchConsensusEvents" -> handleHostFetchConsensusEvents(rq, store)
      [] v = "HostFetchGenesisHeight" -> handleHostFetchGenesisHeight(rq, store)
      [] v = "HostFetchTxBatch" -> handleHostFetchTxBatch(rq, store)
      [] v = "HostProveFreshness" -> handleHostProveFreshness(rq, store)
      [] v = "HostIdentity" -> handleHostIdentity(rq, store)

\* What Handle returns: (nil, err) or (&rsp, nil).
Returned(body, err) == [body |-> body, err |-> err]

NoReturn == Returned(Absent, "none")

\* Mutant of HostHandle: an error is returned together with the envelope
\* (return &rsp, err).
HostHandle_ResponseWithError(rq, store) ==
    LET v == Dispatched(rq)
    IN  IF v = "none"
        THEN {[ret |-> Returned(EmptyBody, errMethodNotSupported), calls |-> <<>>,
               store |-> store]}
        ELSE {[ret |-> Returned([EmptyBody EXCEPT ![v] = o.rsp], o.err),
               calls |-> o.calls,
               store |-> o.store] : o \in SubHandler(v, rq[v], store)}

\* runtimeHostHandler.Handle: the switch runs the handler of the first
\* populated variant and stores its response in the variant's response
\* field; with no variant populated err is errMethodNotSupported.  Then
\* if err != nil { return nil, err }; return &rsp, nil.
HostHandle(rq, store) ==
    LET v == Dispatched(rq)
    IN  IF v = "none"
        THEN {[ret |-> Returned(Absent, errMethodNotSupported), calls |-> <<>>,
               store |-> store]}
        ELSE {[ret |-> IF o.err # "nil"
                       THEN Returned(Absent, o.err)
                       ELSE Returned([EmptyBody EXCEPT ![v] = o.rsp], "nil"),
               calls |-> o.calls,
               store |-> o.store] : o \in SubHandler(v, rq[v], store)}

\* NewRuntimeHostHandler: the handler keeps no state of its own.  The local
\* store of the runtime starts empty.
HandlerInit ==
    /\ hPc = "idle"
    /\ hRq = EmptyBody
    /\ hRet = NoReturn
    /\ hCalls = <<>>
    /\ localStore = [k \in Keys |-> Nil]

\* The hosted runtime sends a request: Handle is entered with it.
HandleCall ==
    /\ Running
    /\ hPc = "idle"
    /\ hRq' \in Bodies
    /\ hPc' = "called"
    /\ UNCHANGED <<panicked, hRet, hCalls, localStore>>
    /\ HandlerFrame

\* Handle runs to its return.
HandleReturn ==
    /\ Running
    /\ hPc = "called"
    /\ \E o \in HostHandle(hRq, localStore) :
          /\ hRet' = o.ret
          /\ hCalls' = o.calls
          /\ localStore' = o.store
    /\ hPc' = "returned"
    /\ UNCHANGED <<panicked, hRq>>
    /\ HandlerFrame

\* The hosted runtime has taken the reply.
HandleDone ==
    /\ Running
    /\ hPc = "returned"
    /\ hPc' = "idle"
    /\ hRq' = EmptyBody
    /\ hRet' = NoReturn
    /\ hCalls' = <<>>
    /\ UNCHANGED <<panicked, localStore>>
    /\ HandlerFrame

(* --------------------------- specifications --------------------------- *)

NextNode ==
    \E c \in Callers :
        \/ ProvBuild(c)
        \/ ProvLock(c)
        \/ ProvSetAgg(c)
        \/ ProvSetRuntime(c)
        \/ ProvSetNotifier(c)
        \/ ProvClose(c)
        \/ GetLock(c)
        \/ GetRead(c)
        \/ WaitCall(c)
        \/ CtxCancel(c)
        \/ WaitSelectDone(c)
        \/ WaitSelectNotify(c)
        \/ WaitLock(c)
        \/ SetVersionLock(c)
        \/ SetVersionRead(c)
        \/ SetVersionFinish(c)

\* The caller of ProvisionHostedRuntime starts the notifier it was handed.
NextProvision ==
    \/ \E c \in Callers :
          \/ ProvInstantiate(c)
          \/ ProvLock(c)
          \/ ProvSetAgg(c)
          \/ ProvSetRuntime(c)
          \/ ProvSetNotifier(c)
          \/ ProvClose(c)
    \/ notifier # Nil /\ StartOnce

NextBlocks ==
    \/ Start
    \/ Stop
    \/ CancelCtx
    \/ BlkSubscribe
    \/ Produce
    \/ RawClose
    \/ FwdRecv
    \/ FwdClose
    \/ FwdSend
    \/ BlkSelectCtx
    \/ BlkSelectStop
    \/ BlkSelectClosed
    \/ BlkSelectRecv
    \/ BlkSyncReturn

NextPolicy ==
    \/ StartOnce
    \/ Stop
    \/ CancelCtx
    \/ PolSubscribe
    \/ PolSpawn
    \/ PolSelectCtx
    \/ PolSelectStop
    \/ PolRecvDescriptor
    \/ PolCancel
    \/ PolWait
    \/ PolExit
    \/ KmStart
    \/ KmSubStatus
    \/ KmSubEpochs
    \/ KmSubEvents
    \/ KmGetInfo
    \/ KmSelectCtx
    \/ KmRecvStatus
    \/ KmRecvEpoch
    \/ KmRecvEvent
    \/ KmPush
    \/ KmCloseEvents
    \/ KmCloseEpochs
    \/ KmCloseStatus

NextDescriptors ==
    \/ StartOnce
    \/ Stop
    \/ PolSubscribe
    \/ PolSpawn
    \/ PolSelectStop
    \/ PolTakeDescriptor
    \/ PolCancel
    \/ PolWait
    \/ PolExit
    \/ KmStart
    \/ KmSubStatus
    \/ KmSubEpochs
    \/ KmSubEvents
    \/ KmGetInfo
    \/ KmSelectCtx
    \/ KmRecvStatus
    \/ KmRecvEpoch
    \/ KmRecvEvent
    \/ KmPush
    \/ KmCloseEvents
    \/ KmCloseEpochs
    \/ KmCloseStatus

NextStatusStream ==
    \/ StartOnce
    \/ PolSubscribe
    \/ PolSpawn
    \/ PolRecvDescriptor
    \/ PolCancel
    \/ PolWait
    \/ PolExit
    \/ KmStart
    \/ KmSubStatus
    \/ KmSubEpochs
    \/ KmSubEvents
    \/ KmGetInfo
    \/ KmSelectCtx
    \/ StatusEmit
    \/ KmTakeStatus
    \/ KmRecvEpoch
    \/ KmRecvEvent
    \/ KmPush
    \/ KmCloseEvents
    \/ KmCloseEpochs
    \/ KmCloseStatus

NextLoops ==
    \/ StartOnce
    \/ BlkSubscribe
    \/ ProduceFew
    \/ FwdRecv
    \/ FwdSend
    \/ BlkSelectRecv
    \/ BlkSyncReturn
    \/ PolSubscribe
    \/ PolSpawn
    \/ PolRecvDescriptor
    \/ PolCancel
    \/ PolWait
    \/ PolExit
    \/ KmStart
    \/ KmSubStatus
    \/ KmSubEpochs
    \/ KmSubEvents
    \/ KmGetInfo
    \/ KmSelectCtx
    \/ KmRecvStatus
    \/ KmPush
    \/ KmCloseEvents
    \/ KmCloseEpochs
    \/ KmCloseStatus

NextHandler ==
    \/ HandleCall
    \/ HandleReturn
    \/ HandleDone

Init ==
    /\ panicked = "no"
    /\ NodeInit
    /\ NotifierInit
    /\ BlocksInit
    /\ PolicyInit
    /\ HandlerInit

\* The request handler answering the hosted runtime's requests.
SpecHandler == Init /\ [][NextHandler]_vars

\* RuntimeHostNode under concurrent callers.
SpecNode == Init /\ [][NextNode]_vars

\* The policy watch with the descriptor update received last kept.
SpecDescriptors == Init /\ [][NextDescriptors]_vars

\* Concurrent ProvisionHostedRuntime calls with the instantiation of the
\* runtime versions explicit.
SpecProvision == Init /\ [][NextProvision]_vars

\* The notifier with its consensus block watch loop.
SpecBlocks == Init /\ [][NextBlocks]_vars

\* The notifier with its policy watch loop and the inner key-manager watch.
SpecPolicy == Init /\ [][NextPolicy]_vars

\* The policy watch loop and its inner watch while the notifier is in
\* operation (no Stop, no cancellation), with the status stream explicit.
SpecStatusStream == Init /\ [][NextStatusStream]_vars

\* The two watch loops of a started notifier side by side, while it is in
\* operation (no Stop, no cancellation): the block pipeline with the policy
\* watch loop and its inner watch receiving descriptors and statuses.
SpecLoops == Init /\ [][NextLoops]_vars

\* SpecBlocks with the forwarding goroutine and the ring channel scheduled
\* fairly; nothing is assumed about the loop or about host.ConsensusSync.
FairSpecBlocks == SpecBlocks /\ WF_vars(FwdRecv) /\ WF_vars(FwdSend)

\* SpecBlocks with every goroutine of the block watch loop scheduled fairly
\* and every ConsensusSync call returning.  A select whose case is ready
\* again and again eventually takes it (Go chooses among the ready cases at
\* random), and a select with a block to receive does not wait.  Start,
\* Stop, cancellation and the block stream are not constrained.
LiveSpecBlocks ==
    /\ SpecBlocks
    /\ WF_vars(BlkSubscribe)
    /\ WF_vars(FwdRecv)
    /\ WF_vars(FwdSend)
    /\ WF_vars(FwdClose)
    /\ SF_vars(BlkSelectCtx)
    /\ SF_vars(BlkSelectStop)
    /\ SF_vars(BlkSelectClosed)
    /\ WF_vars(BlkSelectRecv)
    /\ WF_vars(BlkSyncReturn)

\* SpecPolicy with the policy watch loop and its inner watch scheduled
\* fairly and every push returning; the event streams are not constrained.
LiveSpecPolicy ==
    /\ SpecPolicy
    /\ WF_vars(PolSubscribe)
    /\ WF_vars(PolSpawn)
    /\ SF_vars(PolSelectCtx)
    /\ SF_vars(PolSelectStop)
    /\ WF_vars(PolCancel)
    /\ WF_vars(PolWait)
    /\ WF_vars(PolExit)
    /\ WF_vars(KmStart)
    /\ WF_vars(KmSubStatus)
    /\ WF_vars(KmSubEpochs)
    /\ WF_vars(KmSubEvents)
    /\ WF_vars(KmGetInfo)
    /\ SF_vars(KmSelectCtx)
    /\ WF_vars(KmPush)
    /\ WF_vars(KmCloseEvents)
    /\ WF_vars(KmCloseEpochs)
    /\ WF_vars(KmCloseStatus)

(* ------------------------- claims: the node ---------------------------- *)

\* C3: over any sequence of RuntimeHostNode operations, repeated or
\* concurrent ProvisionHostedRuntime calls included, close(runtimeNotify) is
\* executed at most once, it never panics, and the latch is never closed
\* before the aggregate and the runtime are installed.
C3_LatchClosedExactlyOnce ==
    /\ closeCalls <= 1
    /\ panicked # "runtimeNotify"
    /\ runtimeNotify = "closed" => (agg # Nil /\ runtime # Nil)

\* C4: a WaitHostedRuntime call with a live context returns only once the
\* latch is closed, returns a non-nil runtime, and every later such call
\* returns the same, provisioned runtime as the first.
C4_WaitReturnsProvisionedRuntime ==
    (lastRet.op = "wait" /\ lastRet.ctx = "live")
        => /\ runtimeNotify = "closed"
           /\ lastRet.err = "nil"
           /\ lastRet.rt # Nil
           /\ lastRet.rt = firstWaitRt

\* C5 as stated: every WaitHostedRuntime call made with an already-canceled
\* context returns the cancellation error and no runtime, whether or not the
\* runtime has been provisioned.
C5_CanceledAlwaysGetsError ==
    (lastRet.op = "wait" /\ lastRet.ctx = "precanceled")
        => (lastRet.err = "canceled" /\ lastRet.rt = Nil)

\* C5 as amended: a WaitHostedRuntime call made with an already-canceled
\* context never blocks in its select (while the process runs); it returns
\* either the cancellation error and no runtime, or, only when the latch is
\* already closed, the installed non-nil runtime with a nil error.
C5_CanceledNeverBlocks ==
    /\ \A c \in Callers :
          (cpc[c] = "wait_select" /\ cctx[c] = "precanceled" /\ Running)
              => ENABLED WaitSelectDone(c)
    /\ (lastRet.op = "wait" /\ lastRet.ctx = "precanceled")
          => \/ lastRet.err = "canceled" /\ lastRet.rt = Nil
             \/ /\ lastRet.err = "nil"
                /\ lastRet.rt # Nil
                /\ runtimeNotify = "closed"

\* C5 witness: with the latch closed, a call made with an already-canceled
\* context has returned the runtime, and another such call sits in its select.
C5_Witness ==
    /\ lastRet.op = "wait" /\ lastRet.ctx = "precanceled"
    /\ lastRet.err = "nil" /\ lastRet.rt # Nil
    /\ \E c \in Callers : cpc[c] = "wait_select" /\ cctx[c] = "precanceled"

(* ----------------------- claims: the notifier -------------------------- *)

\* C1: a second call of Stop, in any state of the notifier, does not panic
\* and leaves the notifier stopped.
C1_StopTwiceSafe ==
    stopCalls >= 2 => (panicked # "stopCh" /\ stopCh = "closed")

\* C2: once Stop has returned, no event that becomes available afterwards
\* leads to a push: no policy or quote-policy push is made for an event the
\* inner watch received after Stop, and ConsensusSync is called for no block
\* emitted after Stop.
C2_NoPushAfterStop ==
    /\ ~latePush
    /\ stopCh = "closed"
          => \A i \in 1..Len(syncLog) : syncLog[i] <= Height(stopMark)

(* -------------------- claims: the policy watch loop -------------------- *)

\* C6: every open inner subscription (status, epochs, host events) was opened
\* for the namespace of the inner watch that is running, so the ones of the
\* previous namespace are all closed before any is opened for the new one and
\* at most one of each kind is open; and every push made since the inner
\* watch started carries a payload learned for its own namespace.
C6_SubscriptionsReplaced ==
    /\ \A k \in SubKinds : subs[k] \subseteq ({kmArg} \cap KmIDs)
    /\ \A k \in SubKinds : Cardinality(subs[k]) <= 1
    /\ \A i \in 1..Len(curPushes) : curPushes[i].km = kmArg

\* C6 witness: the descriptor changed the key manager while an inner watch
\* was running; that watch has returned with its three subscriptions closed
\* and the next one is not spawned yet.
C6_Witness ==
    /\ polPc = "wait"
    /\ ~done
    /\ kmArg \in KmIDs
    /\ kmRtID \in KmIDs \ {kmArg}
    /\ kmPc = "done"
    /\ \A k \in SubKinds : subs[k] = {}

\* C7: when the inner watch has handled a Started or Updated host event while
\* a status and SGX constraints were known, the pushes it made for that event
\* are the last known policy and then the last known quote policy.
C7_RestartReplaysPolicies ==
    (/\ kmPc = "select"
     /\ cur.type \in {"started", "updated"}
     /\ st # NilStatus
     /\ sc # NilConstraints)
        => curPushes = <<PolicyPush(st), QuotePush(sc)>>

\* C7 witness: a Started event has been handled with both pushes made.
C7_Witness ==
    /\ kmPc = "select"
    /\ cur.type = "started"
    /\ Len(curPushes) = 2

(* --------------------- claims: the block watch loop -------------------- *)

\* C8 as stated: when 100, 101 and 102 are produced in rapid succession and
\* the consumer is slower than the producer (no ConsensusSync call of its
\* completes between the production of 100 and that of 102), ConsensusSync
\* is never called for 100 or 101.
C8_OnlyNewestOfBurst ==
    (produced >= 3 /\ ~burstSyncDone)
        => \A i \in 1..Len(syncLog) : syncLog[i] \notin {Height(1), Height(2)}

\* C8 as amended: when the loop receives nothing from the ring channel
\* between the write of 100 and the write of 102 into it, ConsensusSync is
\* never called for 100 or 101, and while 102 is the newest block written the
\* only call made, if any, is the one for 102.
C8_NewestOfUnreadBurst ==
    (Len(cellWrites) >= 3 /\ ~burstTake)
        => /\ \A i \in 1..Len(syncLog) : syncLog[i] \notin {Height(1), Height(2)}
           /\ Len(cellWrites) = 3 => syncLog \in {<<>>, <<Height(3)>>}

\* C8 witness: 100, 101, 102 were written with no receive in between, and the
\* one ConsensusSync call made is for 102.
C8_Witness ==
    /\ Len(cellWrites) = 3
    /\ ~burstTake
    /\ syncLog = <<Height(3)>>

\* C9: the ring channel holds at most one pending block, the pending block is
\* the most recently written one (a write replaces an unconsumed block), and
\* each block the loop receives is the newest written at that moment.
C9_LatestBlockCell ==
    /\ Len(blkCh) <= 1
    /\ blkCh # <<>> => blkCh[1] = cellWrites[Len(cellWrites)]
    /\ lastTake # NoTake => lastTake.got = lastTake.newest

\* C9 witness: the loop received 101 after 101 had replaced the unconsumed
\* 100 in the buffer.
C9_Witness ==
    /\ lastTake = [got |-> Height(2), newest |-> Height(2)]
    /\ syncLog = <<Height(2)>>

\* C10: every block emitted on the stream is written to the ring channel
\* after finitely many steps of the forwarding goroutine, whatever the loop
\* does and however long ConsensusSync takes (unless the process has been
\* terminated by a panic).
C10_ProducerNeverBlocks ==
    \A k \in 1..MaxBlocks :
        (produced >= k) ~> (Len(cellWrites) >= k \/ ~Running)

\* C10 witness: the loop is still inside ConsensusSync for the first block
\* while every later block has been written to the ring channel.
C10_Witness ==
    /\ blkPc = "sync"
    /\ blk = Height(1)
    /\ Len(cellWrites) = MaxBlocks

(* ------------------------- runtimeHostHandler claims -------------------- *)

\* C11: a request envelope with no populated request variant, or with more
\* than one, makes Handle return the "method not supported" sentinel without
\* invoking any collaborator operation.
C11_UnsupportedUnlessOneVariant ==
    (hPc = "returned" /\ Cardinality(Populated(hRq)) # 1)
        => /\ hRet = Returned(Absent, errMethodNotSupported)
           /\ hCalls = <<>>

\* C12: Handle returns either an error and no response envelope, or no error
\* and a response envelope with exactly one populated response variant, which
\* is the variant of a populated request variant.
C12_ResponseXorError ==
    hPc = "returned"
        => \/ /\ hRet.err # "nil"
              /\ hRet.body = Absent
           \/ /\ hRet.err = "nil"
              /\ hRet.body # Absent
              /\ Cardinality(Populated(hRet.body)) = 1
              /\ Populated(hRet.body) \subseteq Populated(hRq)

\* Handle has returned a response to a request, and an error to another.
C12_Witness ==
    /\ hPc = "returned"
    /\ hRet.err = "nil"
    /\ Populated(hRq) = {"HostLocalStorageSet"}
    /\ Populated(hRet.body) = {"HostLocalStorageSet"}
    /\ localStore[1] = 2

\* C13: a fetch-consensus-events request of one of the four kinds queries the
\* backend of that kind once for the requested height, and the response lists
\* the events the backend returned, in the same order and number, each with
\* only the field of the requested kind set; any other kind yields the
\* "method not supported" sentinel and no backend is queried.
C13_EventsAsReturnedByBackend ==
    (hPc = "returned" /\ Dispatched(hRq) = "HostFetchConsensusEvents")
        => LET rq == hRq["HostFetchConsensusEvents"]
               backend == CASE rq.kind = "staking" -> "consensus.Staking"
                            [] rq.kind = "registry" -> "consensus.Registry"
                            [] rq.kind = "roothash" -> "consensus.RootHash"
                            [] rq.kind = "governance" -> "consensus.Governance"
                            [] OTHER -> "none"
           IN  IF backend = "none"
               THEN /\ hRet = Returned(Absent, errMethodNotSupported)
                    /\ hCalls = <<>>
               ELSE /\ Len(hCalls) = 1
                    /\ hCalls[1].obj = backend
                    /\ hCalls[1].op = "GetEvents"
                    /\ hCalls[1].arg.val = rq.height
                    /\ IF hCalls[1].ok
                       THEN /\ hRet.err = "nil"
                            /\ LET evs == hRet.body["HostFetchConsensusEvents"].events
                                   src == hCalls[1].res.val
                               IN  /\ Len(evs) = Len(src)
                                   /\ \A i \in 1..Len(src) :
                                         /\ evs[i][rq.kind] = src[i]
                                         /\ \A k \in EventKinds \ {rq.kind} :
                                               evs[i][k] = Nil
                       ELSE /\ hRet.err \notin {"nil", errMethodNotSupported}
                            /\ hRet.body = Absent

\* The root-hash backend returned two different events and Handle listed them.
C13_Witness ==
    /\ hPc = "returned"
    /\ Dispatched(hRq) = "HostFetchConsensusEvents"
    /\ hRq["HostFetchConsensusEvents"].kind = "roothash"
    /\ hRet.err = "nil"
    /\ hCalls[1].res.val = <<2, 1>>
    /\ Len(hRet.body["HostFetchConsensusEvents"].events) = 2

\* C14: a fetch-transaction-batch request returns the raw bytes of the
\* transactions at pool positions offset, ..., offset + limit - 1 (as far as
\* the pool has them), in pool order, nothing added, dropped or reordered;
\* with a pool of 10 transactions, offset 5 and limit 3 these are the
\* transactions at positions 5, 6 and 7.
C14_BatchIsPoolWindow ==
    (hPc = "returned" /\ Dispatched(hRq) = "HostFetchTxBatch" /\ hRet.err = "nil")
        => LET rq == hRq["HostFetchTxBatch"]
               pool == hCalls[1].res.val
               got == hRet.body["HostFetchTxBatch"].batch
               rest == IF Len(pool) > rq.offset THEN Len(pool) - rq.offset ELSE 0
               n == IF rq.limit < rest THEN rq.limit ELSE rest
           IN  /\ Len(hCalls) = 2
               /\ hCalls[1].op = "GetTxPool"
               /\ hCalls[2].op = "GetSchedulingExtra"
               /\ hCalls[2].arg.val = <<rq.offset, rq.limit>>
               /\ Len(got) = n
               /\ \A i \in 1..n : got[i] = pool[rq.offset + i].raw
               /\ (Len(pool) = 10 /\ rq.offset = 5 /\ rq.limit = 3)
                     => got = <<105, 106, 107>>

\* The scenario of the claim: pool of 10, offset 5, limit 3.
C14_Witness ==
    /\ hPc = "returned"
    /\ Dispatched(hRq) = "HostFetchTxBatch"
    /\ hRet.err = "nil"
    /\ hRq["HostFetchTxBatch"] = [offset |-> 5, limit |-> 3]
    /\ Len(hCalls[1].res.val) = 10
    /\ Len(hRet.body["HostFetchTxBatch"].batch) = 3

(* ------------------------------ Start claims ---------------------------- *)

\* C17: over any sequence of Start calls exactly one policy watch loop and
\* one block watch loop are spawned, by the first call, and a Start call made
\* once the notifier is started changes nothing.
C17_StartIdempotent ==
    /\ [](/\ polSpawns <= 1
          /\ blkSpawns <= 1
          /\ started <=> startCalls >= 1
          /\ started => (polSpawns = 1 /\ blkSpawns = 1))
    /\ [][(started /\ startCalls' # startCalls)
            => UNCHANGED <<panicked, nodeVars, started, stopCh, ctxDone, stopCalls,
                           stopMark, polSpawns, blkSpawns, blockVars, policyVars,
                           handlerVars>>]_vars

\* Start has been called again while the block watch loop was running.
C17_Witness ==
    /\ startCalls >= 2
    /\ polSpawns = 1
    /\ blkSpawns = 1
    /\ blkPc = "select"
    /\ produced >= 1

(* ----------------------------- shutdown claims -------------------------- *)

\* Stop has been called, or the notifier's context canceled, on a started
\* notifier.
ShutdownRequested == started /\ (stopCh = "closed" \/ ctxDone)

\* The block watch loop has returned and its subscription is closed.
BlockLoopReturned == blkPc = "done" /\ blkSub # "open"

\* The policy watch loop has returned, and the descriptor subscription and
\* every inner subscription are closed.
PolicyLoopReturned ==
    /\ polPc = "done"
    /\ kmPc \in {"none", "done"}
    /\ dscSub # "open"
    /\ \A k \in SubKinds : subs[k] = {}

\* C15: after Stop or the cancellation of the notifier's context, with every
\* in-flight push returning, the watch loop eventually returns with its
\* subscription closed (here the block watch loop).
C15_LoopsReturnAfterStop == ShutdownRequested ~> BlockLoopReturned

\* C15 for the policy watch loop, in the runs without a panic.
C15_PolicyLoopReturnsUnlessPanic ==
    ShutdownRequested ~> (PolicyLoopReturned \/ ~Running)

\* C15 for the block watch loop, in the runs without a panic.
C15_BlockLoopReturnsUnlessPanic ==
    ShutdownRequested ~> (BlockLoopReturned \/ ~Running)

C16_PolicyTasksTerminate ==
    (started /\ stopCh = "closed")
        ~> ((polPc = "done" /\ kmPc \in {"none", "done"}) \/ ~Running)

C18_SetVersionNeedsAggregate ==
    [][\A c \in Callers :
          /\ (cpc[c] = "setv_read" /\ cpc'[c] = "setv_call")
                => /\ clocal'[c] = agg
                   /\ provisions = 0 => agg = Nil
                   /\ runtimeNotify = "closed" => agg # Nil
          /\ (cpc[c] = "setv_call" /\ cpc'[c] = "idle")
                => /\ lastRet'.op = "setversion"
                   /\ UNCHANGED <<mu, agg, runtime, notifier, runtimeNotify>>
                   /\ IF clocal[c] = Nil
                      THEN /\ lastRet'.err = "runtime not available"
                           /\ lastRet'.rt = Nil
                      ELSE /\ lastRet'.err \in {"nil", "failed"}
                           /\ lastRet'.rt = clocal[c]]_vars

\* SetHostedRuntimeVersion has failed before the provisioning, and another
\* call is about to forward the switch to the aggregate installed since.
C18_Witness ==
    /\ lastRet = [op |-> "setversion", rt |-> Nil, err |-> "runtime not available",
                  ctx |-> "none"]
    /\ runtimeNotify = "closed"
    /\ \E c \in Callers : cpc[c] = "setv_call" /\ clocal[c] = agg /\ agg # Nil

\* C19: a reader that holds the node's lock finds the aggregate, the runtime
\* and the notifier all unset or all set by one ProvisionHostedRuntime call.
C19_ReadersSeeWholeInstall ==
    \A c \in Callers :
        (mu = c /\ cpc[c] \in {"get_read", "wait_read", "setv_read"})
            => /\ agg = runtime
               /\ runtime = notifier

\* A reader holds the lock while a second provisioning waits for it.
C19_Witness ==
    \E c, d \in Callers :
        /\ mu = c
        /\ cpc[c] = "get_read"
        /\ agg # Nil
        /\ cpc[d] = "prov_lock"

\* C20: the holder of the node's mutex is inside a critical section that only
\* reads or assigns fields; a caller that is provisioning runtimes (the step
\* leaving "idle"), waiting for the lock or on the latch, closing the latch or
\* inside agg.SetVersion does not hold it.
C20_NoBlockingCallUnderLock ==
    \A c \in Callers :
        /\ mu = c => cpc[c] \in {"prov_set_agg", "prov_set_runtime",
                                 "prov_set_notifier", "get_read", "wait_read",
                                 "setv_read"}
        /\ cpc[c] \in {"idle", "prov_lock", "prov_close", "wait_select",
                       "wait_lock", "setv_call"} => mu # c

\* A caller is inside agg.SetVersion while another holds the lock.
C20_Witness ==
    \E c, d \in Callers :
        /\ cpc[c] = "setv_call"
        /\ clocal[c] # Nil
        /\ mu = d
        /\ cpc[d] = "prov_set_runtime"


(* ------------------ claims: pushes of the policy watch ------------------ *)

\* The payload kinds of a sequence of pushes, in order.
Kinds(pushes) == [i \in 1..Len(pushes) |-> pushes[i].kind]

\* No element occurs twice in the sequence q.
NoRepeat(q) == \A i, j \in 1..Len(q) : q[i] = q[j] => i = j

\* C21 as stated: after a policy or quote-policy push has failed or timed
\* out, the inner watch makes no call to the hosted runtime before it has
\* received another event.
C21_NoCallBeforeNextEvent ==
    firstFailed # 0 => Len(curPushes) = firstFailed

\* C21 as amended: a push that fails or times out is not retried and the
\* inner watch stays running; the pushes made for one event are of distinct
\* payload kinds (a failed policy push of a restart event is still followed
\* by that event's quote-policy push), the pushes still to be made are of
\* other kinds than those made, and once the event is handled the watch
\* waits in its select with no push left to make.
C21_FailedPushNotRetried ==
    /\ NoRepeat(Kinds(curPushes \o pend))
    /\ Len(curPushes \o pend) <= 2
    /\ kmPc = "select" => pend = <<>>
    /\ kmPc = "push" => pend # <<>>
    /\ firstFailed # 0 => (kmPc \in {"push", "select"} /\ firstFailed <= Len(curPushes))

\* C21 companion for the new-block push, under SpecBlocks: ConsensusSync is
\* called at most once per block, for increasing heights, whatever it returns.
C21_BlockPushNotRetried ==
    \A i, j \in 1..Len(syncLog) : i < j => syncLog[i] < syncLog[j]

\* C21 witness: handling a restart event, the policy push failed, the
\* quote-policy push was made once, and the watch is back in its select.
C21_Witness ==
    /\ kmPc = "select"
    /\ cur.type \in {"started", "updated"}
    /\ firstFailed = 1
    /\ Kinds(curPushes) = <<"policy", "quotePolicy">>

\* Every push made for the current event carries what the inner watch knows
\* last: a policy push st.Policy, a quote-policy push sc.Policy.
PushesCarryLatestKnown ==
    \A i \in 1..Len(curPushes) :
        /\ curPushes[i].kind = "policy" => curPushes[i] = PolicyPush(st)
        /\ curPushes[i].kind = "quotePolicy" => curPushes[i] = QuotePush(sc)

\* The inner watch receives a status update of the tracked key manager, which
\* it goes on to push.
TakesTrackedStatus ==
    /\ kmPc = "select"
    /\ stCh # <<>>
    /\ Head(stCh).id = kmArg
    /\ stCh' = Tail(stCh)
    /\ kmPc' = "push"

\* C22: every policy push carries the latest known policy and every
\* quote-policy push the latest known quote policy, and a superseded policy
\* is never sent: the inner watch never goes on to push a status update when
\* a newer one for the tracked key manager has been published by then.
C22_SupersededPolicyNeverSent ==
    /\ []PushesCarryLatestKnown
    /\ [][TakesTrackedStatus => \A i \in 1..Len(stCh') : stCh'[i].id # kmArg]_vars

\* The inner watch receives a status update of another key manager than the
\* tracked one (a repeated one leaves the state as it is).
ReceivesForeignStatus ==
    /\ kmPc = "select"
    /\ cur' # cur
    /\ cur'.type = "status"
    /\ cur'.arg # kmArg

\* The inner watch receives a status update and goes on to push.
ReceivesPushedStatus ==
    /\ kmPc = "select"
    /\ kmPc' = "push"
    /\ cur'.type = "status"

\* C23: a status update whose id differs from the tracked namespace changes
\* none of st, sc, vi and causes no push; a status update for the tracked id
\* replaces st and causes exactly one policy push, carrying st.Policy.
C23_StatusFilteredByTrackedId ==
    /\ []((kmPc = "select" /\ cur.type = "status")
            => /\ cur.arg # kmArg => curPushes = <<>>
               /\ cur.arg = kmArg => (st.id = kmArg /\ curPushes = <<PolicyPush(st)>>))
    /\ [][ReceivesForeignStatus
            => (UNCHANGED <<st, sc, vi>> /\ pend' = <<>> /\ kmPc' = "select")]_vars
    /\ [][ReceivesPushedStatus
            => /\ cur'.arg = kmArg
               /\ st'.id = kmArg
               /\ pend' = <<PolicyPush(st')>>
               /\ UNCHANGED <<sc, vi>>]_vars

\* C23 witness: a status update for the tracked key manager has been
\* received; it is the stored status and its policy has been pushed once.
C23_Witness ==
    /\ kmPc = "select"
    /\ cur.type = "status"
    /\ cur.arg = kmArg
    /\ st.policy = NumPolicies
    /\ curPushes = <<PolicyPush(st)>>

\* The inner watch receives an epoch and goes on to push.
ReceivesPushedEpoch ==
    /\ kmPc = "select"
    /\ kmPc' = "push"
    /\ cur'.type = "epoch"

\* C24: an epoch leads to a quote-policy push only if the runtime advertises
\* KeyManagerQuotePolicyUpdates, the descriptor queried is an Intel SGX one
\* and the active deployment differs from the last observed one, which it
\* then becomes (so that a following epoch with that deployment pushes
\* nothing); the push is a single one and carries the constraints parsed.
C24_QuotePushOnlyOnRedeploy ==
    /\ []((cur.type = "epoch" /\ curPushes \o pend # <<>>)
            => /\ quoteUpdates
               /\ cur.hw = "sgx"
               /\ curPushes \o pend = <<QuotePush(sc)>>)
    /\ [][ReceivesPushedEpoch
            => /\ quoteUpdates
               /\ cur'.hw = "sgx"
               /\ ~VersionInfoEqual(vi', vi)
               /\ sc' = [km |-> kmArg, policy |-> vi'.ver]
               /\ pend' = <<QuotePush(sc')>>]_vars

\* C24 witness: an epoch whose descriptor is an SGX one with a deployment
\* not observed before has been handled and its quote policy pushed.
C24_Witness ==
    /\ kmPc = "select"
    /\ cur.type = "epoch"
    /\ vi.ver = NumVersions
    /\ sc.policy = NumVersions
    /\ curPushes = <<QuotePush(sc)>>

\* C25: st, sc and vi are nil whenever no invocation of the inner watch is
\* past their declaration, so each invocation starts without them; what an
\* invocation knows and pushes was learned for the key manager it tracks; and
\* after an invocation that knew a status or constraints has returned, no
\* push is made, not even for a restart event, until the next invocation has
\* learned a status or constraints of its own.
C25_StateClearedOnChange ==
    /\ kmPc \notin {"select", "push"}
          => (st = NilStatus /\ sc = NilConstraints /\ vi = NilVersionInfo
                /\ curPushes \o pend = <<>>)
    /\ st # NilStatus => st.id = kmArg
    /\ sc # NilConstraints => sc.km = kmArg
    /\ \A i \in 1..Len(curPushes \o pend) : (curPushes \o pend)[i].km = kmArg
    /\ prevKnew
          => (st = NilStatus /\ sc = NilConstraints /\ curPushes \o pend = <<>>)

\* C25 witness: the tracked key manager changed after a status or
\* constraints were known; the inner watch of the new key manager has
\* received the host's Started event before any status or epoch that taught
\* it something, and has pushed nothing.
C25_Witness ==
    /\ kmPc = "select"
    /\ kmArg = kmRtID
    /\ prevKnew
    /\ cur.type = "started"
    /\ curPushes = <<>>

(* --------------- claims: the tracked key-manager namespace -------------- *)

\* C26: once the policy watch loop tracks a key-manager namespace, no step
\* returns kmRtID to nil, whatever descriptor updates arrive.
C26_TrackedNamespaceNeverUnset ==
    [][kmRtID # Nil => kmRtID' # Nil]_vars

(* ------------------ claims: undecodable SGX constraints ----------------- *)

\* C27: when the TEE payload of a new deployment does not decode, the inner
\* watch stays in its loop and pushes nothing, sc keeps its value, and the
\* deployment is the last observed one, so that later epochs with it stop
\* at the comparison and its payload is not decoded again; an epoch with a
\* different deployment whose payload decodes leads to one quote-policy push
\* carrying the constraints decoded.
C27_MalformedConstraintsSkipped ==
    /\ []((kmPc \in {"select", "push"} /\ cur.type = "epoch" /\ cur.decoded)
            => IF vi.tee = "malformed"
               THEN kmPc = "select" /\ curPushes \o pend = <<>>
               ELSE /\ curPushes \o pend = <<QuotePush(sc)>>
                    /\ sc = [km |-> kmArg, policy |-> vi.ver])
    /\ [][(kmPc = "select" /\ vi' # vi /\ vi'.tee = "malformed")
            => (cur'.decoded /\ kmPc' = "select" /\ pend' = <<>> /\ UNCHANGED sc)]_vars
    /\ [][(kmPc = "select" /\ vi.tee = "malformed" /\ vi' # vi /\ vi'.tee = "valid")
            => (cur'.decoded /\ kmPc' = "push" /\ pend' = <<QuotePush(sc')>>)]_vars

\* C27 witness: with the constraints of an earlier deployment known, an epoch
\* with a new deployment whose payload does not decode has been handled:
\* nothing was pushed and the watch is back in its select.
C27_Witness ==
    /\ kmPc = "select"
    /\ cur.type = "epoch"
    /\ cur.decoded
    /\ vi.tee = "malformed"
    /\ sc # NilConstraints
    /\ sc.policy # vi.ver
    /\ curPushes = <<>>

(* ------------------- claims: closure of the block stream ---------------- *)

\* C28: when the block stream has been closed, the block watch loop
\* eventually returns with its subscription closed (at the latest the
\* process ends, by the panic of a second Stop); no step of the loop or of
\* its forwarding goroutine panics; and ConsensusSync is only ever called
\* with the height of a block that was emitted on the stream.
C28_CleanExitOnStreamClosure ==
    /\ [](\A i \in 1..Len(syncLog) : \E k \in 1..produced : syncLog[i] = Height(k))
    /\ [][panicked' # panicked => stopCalls' # stopCalls]_vars
    /\ rawClosed ~> ((blkPc = "done" /\ blkSub = "closed") \/ ~Running)

\* C28 witness: with neither Stop nor a cancellation, the upstream closed the
\* stream after blocks had been delivered; the forwarding goroutine closed
\* the ring channel and the loop has returned and closed its subscription.
C28_Witness ==
    /\ stopCh = "open"
    /\ ~ctxDone
    /\ blkPc = "done"
    /\ blkSub = "closed"
    /\ blkChIn = "closed"
    /\ syncLog # <<>>

(* ---------------- claims: endpoints of the request handler -------------- *)

\* The operations the current Handle call invoked on the collaborator obj.
CallsOn(obj) == {i \in 1..Len(hCalls) : hCalls[i].obj = obj}

\* C29: a storage-sync request whose endpoint is neither runtime nor
\* consensus, or is runtime while h.runtime.Storage() is nil, fails with
\* errEndpointNotSupported, whatever methods it has populated, and no read
\* syncer is called; with a read syncer and no method populated it fails with
\* errMethodNotSupported, again with no read syncer called.
C29_StorageSyncUnsupported ==
    (hPc = "returned" /\ Dispatched(hRq) = "HostStorageSync")
        => LET rq == hRq["HostStorageSync"]
               noSyncer == \/ rq.endpoint \notin {"runtime", "consensus"}
                           \/ /\ hCalls # <<>>
                              /\ hCalls[1].op = "Storage"
                              /\ hCalls[1].res.val = "nil"
           IN  /\ rq.endpoint \notin {"runtime", "consensus"} => hCalls = <<>>
               /\ rq.endpoint \in {"runtime", "consensus"}
                     => (hCalls # <<>> /\ hCalls[1] \in
                            {GetSyncer(rq.endpoint, rs) : rs \in ReadSyncers(rq.endpoint)})
               /\ noSyncer
                     => /\ hRet = Returned(Absent, errEndpointNotSupported)
                        /\ Len(hCalls) <= 1
               /\ (~noSyncer /\ rq.methods = {})
                     => /\ hRet = Returned(Absent, errMethodNotSupported)
                        /\ Len(hCalls) = 1
               /\ (~noSyncer /\ rq.methods # {})
                     => /\ Len(hCalls) = 2
                        /\ hCalls[2].obj = hCalls[1].res.val
                        /\ hCalls[2].op = FirstSyncMethod(rq.methods)

\* C29 witness: a request with an unknown endpoint and no method populated
\* has been answered with errEndpointNotSupported.
C29_Witness ==
    /\ hPc = "returned"
    /\ Populated(hRq) = {"HostStorageSync"}
    /\ hRq["HostStorageSync"].endpoint = "other"
    /\ hRq["HostStorageSync"].methods = {}
    /\ hRet = Returned(Absent, errEndpointNotSupported)

\* C30: an RPC-call request for another endpoint than the key-manager
\* enclave endpoint fails with errEndpointNotSupported and the key-manager
\* client is neither obtained nor called; for the enclave endpoint, when
\* obtaining the client or its CallEnclave fails, an error and no response
\* are returned, and a client that was not obtained is not called.
C30_RPCCallUnsupportedEndpoint ==
    (hPc = "returned" /\ Dispatched(hRq) = "HostRPCCall")
        => LET rq == hRq["HostRPCCall"]
           IN  IF rq.endpoint # EnclaveRPCEndpoint
               THEN /\ hRet = Returned(Absent, errEndpointNotSupported)
                    /\ hCalls = <<>>
               ELSE /\ hCalls # <<>>
                    /\ hCalls[1].op = "GetKeyManagerClient"
                    /\ ~hCalls[1].ok => (Len(hCalls) = 1 /\ CallsOn("kmCli") = {})
                    /\ hCalls[1].ok => (Len(hCalls) = 2 /\ hCalls[2].op = "CallEnclave")
                    /\ (\E i \in 1..Len(hCalls) : ~hCalls[i].ok)
                          => (hRet.body = Absent
                                /\ hRet.err \notin {"nil", errEndpointNotSupported,
                                                    errMethodNotSupported})
                    /\ (\A i \in 1..Len(hCalls) : hCalls[i].ok)
                          => (hRet.err = "nil" /\ hRet.body # Absent)

\* C30 witness: a request for another endpoint has been answered with
\* errEndpointNotSupported.
C30_Witness ==
    /\ hPc = "returned"
    /\ Populated(hRq) = {"HostRPCCall"}
    /\ hRq["HostRPCCall"].endpoint # EnclaveRPCEndpoint
    /\ hRet = Returned(Absent, errEndpointNotSupported)

(* ------------------- claims: effects of a Handle call ------------------- *)

\* The operations by which a handler obtains the collaborator it then calls:
\* the getters of h.env, h.runtime.Storage() and h.consensus.State().
Lookups ==
    {"GetKeyManagerClient", "GetTxPool", "GetNodeIdentity", "GetLightClient",
     "Storage", "State"}

\* The collaborators a request variant's handler invokes an operation on.
Collaborators(v) ==
    CASE v = "HostRPCCall" -> {"kmCli"}
      [] v = "HostStorageSync" -> {"runtime.Storage", "consensus.State"}
      [] v = "HostLocalStorageGet" -> {"runtime.LocalStorage"}
      [] v = "HostLocalStorageSet" -> {"runtime.LocalStorage"}
      [] v = "HostFetchConsensusBlock" -> {"lc"}
      [] v = "HostFetchConsensusEvents" ->
            {"consensus.Staking", "consensus.Registry", "consensus.RootHash",
             "consensus.Governance"}
      [] v = "HostFetchGenesisHeight" -> {"consensus"}
      [] v = "HostFetchTxBatch" -> {"txPool"}
      [] v = "HostProveFreshness" -> {"consensus"}
      [] OTHER -> {}

\* The calls of a Handle call that are operations, not lookups.
Operations == {i \in 1..Len(hCalls) : hCalls[i].op \notin Lookups}

\* C31: a Handle call invokes at most one operation, on a collaborator of
\* the variant it dispatched, after at most one lookup of that collaborator;
\* no call is made twice and nothing is called after a call that failed; a
\* request with no variant populated calls nothing.  The local store changes
\* only in a Handle call that dispatched a local-storage-set request whose
\* Set succeeded, and then only at the request's key; a step of Handle
\* changes no variable of the node or of the notifier.
C31_OneOperationNoRetry ==
    /\ [](hPc = "returned"
            => /\ Cardinality(Operations) <= 1
               /\ Len(hCalls) <= 2
               /\ \A i \in Operations :
                     hCalls[i].obj \in Collaborators(Dispatched(hRq))
               /\ NoRepeat([i \in 1..Len(hCalls) |-> <<hCalls[i].obj, hCalls[i].op>>])
               /\ \A i \in 1..Len(hCalls) : ~hCalls[i].ok => i = Len(hCalls)
               /\ Dispatched(hRq) = "none" => hCalls = <<>>)
    /\ [][localStore' # localStore
            => /\ hPc = "called"
               /\ Dispatched(hRq) = "HostLocalStorageSet"
               /\ LET rq == hRq["HostLocalStorageSet"]
                  IN  /\ localStore' = [localStore EXCEPT ![rq.key] = rq.value]
                      /\ hCalls' = <<Call("runtime.LocalStorage", "Set",
                                          <<rq.key, rq.value>>, Empty, TRUE)>>
               /\ hRet'.err = "nil"]_vars
    /\ [][hPc' # hPc
            => UNCHANGED <<panicked, nodeVars, notifVars, blockVars, policyVars>>]_vars

\* C31 witness: a local-storage-set request for a value other than the one
\* stored has failed: Set was called once and the store kept the value an
\* earlier request had set.
C31_Witness ==
    /\ hPc = "returned"
    /\ Dispatched(hRq) = "HostLocalStorageSet"
    /\ hRet.err # "nil"
    /\ Len(hCalls) = 1
    /\ ~hCalls[1].ok
    /\ localStore[hRq["HostLocalStorageSet"].key] # Nil
    /\ localStore[hRq["HostLocalStorageSet"].key] # hRq["HostLocalStorageSet"].value

(* ---------------- claims: independence of the watch loops --------------- *)

C33_StartedOnReturn ==
    (lastRet.op = "provision" /\ lastRet.err = "nil") => started

\* C33 (amended): a ProvisionHostedRuntime call that reaches its critical
\* section, and so one that returns successfully, has instantiated exactly the
\* versions the host configuration lists, each one with a configuration that
\* already held the one Request Handler of this call; when it returns, the
\* Notifier it created is recorded in the node, and no step of the method
\* starts it (or touches the Notifier's state at all): starting is left to
\* the caller.
C33_HandlerInstalledNotifierNotStarted ==
    /\ [](\A c \in Callers :
            provRts[c].call # Nil =>
                /\ {rt.version : rt \in provRts[c].rts} = provRts[c].cfgs
                /\ \A rt \in provRts[c].rts : rt.handler = provRts[c].call)
    /\ [][(lastRet' # lastRet /\ lastRet'.op = "provision"
                              /\ lastRet'.err = "nil") =>
            /\ notifier' # Nil
            /\ \E c \in Callers : /\ cpc[c] = "prov_close"
                                  /\ provRts[c].call = lastRet'.rt]_vars
    /\ [][(cpc' # cpc \/ provisions' # provisions) => UNCHANGED notifVars]_vars

\* A call over two versions has returned successfully and the Notifier is
\* not started.
C33_Witness ==
    /\ lastRet.op = "provision"
    /\ lastRet.err = "nil"
    /\ ~started
    /\ \E c \in Callers :
         /\ provRts[c].call = lastRet.rt
         /\ Cardinality(provRts[c].rts) = MaxRtVersions
         /\ \A rt \in provRts[c].rts : rt.handler = lastRet.rt

(* ---------------- claims: an unchanged key-manager reference ------------- *)

\* C34: the receipt of a compute descriptor update whose KeyManager equals
\* the key manager tracked when it arrives (both nil included) changes
\* nothing of the policy watch: the outer loop stays in its select, the inner
\* watch is not cancelled, its subscriptions, st, sc and vi are what they
\* were and no push is queued or made.  While the inner watch runs without a
\* key manager it has no subscription open and pushes nothing.
C34_SameKeyManagerChangesNothing ==
    /\ [][(lastDsc' # lastDsc /\ lastDsc'.kind = "compute"
                              /\ lastDsc'.km = lastDsc'.was)
            => UNCHANGED policyVars]_vars
    /\ [](kmArg = Nil =>
            /\ \A k \in SubKinds : subs[k] = {}
            /\ curPushes \o pend = <<>>
            /\ kmPc \in {"none", "start", "done"})

\* C34 witness: the descriptor update received last named the key manager
\* already tracked; the inner watch for it is in its select with its three
\* subscriptions open and a status known.
C34_Witness ==
    /\ lastDsc.kind = "compute"
    /\ lastDsc.km = lastDsc.was
    /\ lastDsc.km = kmArg
    /\ kmArg # Nil
    /\ polPc = "select"
    /\ kmPc = "select"
    /\ st # NilStatus
    /\ \A k \in SubKinds : subs[k] = {kmArg}

(* ----------------------- claims: host-runtime events -------------------- *)

\* C35: a host event that is neither Started nor Updated leads to no push;
\* a Started or Updated event leads to exactly the pushes of what is known
\* when it arrives: none when neither a status nor constraints are known,
\* the policy alone or the quote policy alone when only that one is known,
\* and the policy followed by the quote policy when both are.
C35_ReplayOnlyWhatIsKnown ==
    LET pushes == curPushes \o pend
    IN  /\ cur.type = "other" => (pushes = <<>> /\ kmPc # "push")
        /\ cur.type \in {"started", "updated"} =>
              /\ (st = NilStatus /\ sc = NilConstraints) => pushes = <<>>
              /\ (st # NilStatus /\ sc = NilConstraints)
                    => pushes = <<PolicyPush(st)>>
              /\ (st = NilStatus /\ sc # NilConstraints)
                    => pushes = <<QuotePush(sc)>>
              /\ (st # NilStatus /\ sc # NilConstraints)
                    => pushes = <<PolicyPush(st), QuotePush(sc)>>
              /\ kmPc = "select" => pend = <<>>

\* C35 witness: an Updated event arrived while constraints were known and no
\* status was; the quote policy alone has been pushed.
C35_Witness ==
    /\ kmPc = "select"
    /\ cur.type = "updated"
    /\ st = NilStatus
    /\ sc # NilConstraints
    /\ curPushes = <<QuotePush(sc)>>

(* --------------------- claims: a failed provisioning -------------------- *)

\* A WaitHostedRuntime caller at its select with a live context.
Waiting(c) == cpc[c] = "wait_select" /\ cctx[c] = "live"

\* A step in which a ProvisionHostedRuntime call returns an error.
FailedProvision == provisions' # provisions /\ cpc' = cpc

\* C36: the step in which a ProvisionHostedRuntime call fails leaves agg,
\* runtime, notifier, the mutex and the latch as they were; the latch is
\* closed only by the last step of a call that has installed the three
\* fields; and a WaitHostedRuntime caller with a live context can take no
\* step while the latch is open, and leaves its select only when the latch is
\* closed or its context is cancelled.
C36_FailedProvisioningChangesNothing ==
    /\ [][FailedProvision
            => /\ lastRet'.op = "provision" /\ lastRet'.err # "nil"
               /\ UNCHANGED <<mu, agg, runtime, notifier, runtimeNotify>>
               /\ \A c \in Callers : Waiting(c) => Waiting(c)']_vars
    /\ [][runtimeNotify' # runtimeNotify
            => /\ runtimeNotify' = "closed"
               /\ lastRet'.op = "provision" /\ lastRet'.err = "nil"
               /\ agg' # Nil /\ runtime' # Nil /\ notifier' # Nil]_vars
    /\ [](\A c \in Callers :
            (Waiting(c) /\ runtimeNotify = "open")
               => ~ENABLED (WaitSelectDone(c) \/ WaitSelectNotify(c)))
    /\ [][\A c \in Callers :
            (Waiting(c) /\ cpc'[c] # "wait_select") => runtimeNotify = "closed"]_vars

\* C36 witness: a provisioning has failed while a caller waits with a live
\* context; nothing is installed, the latch is open and the waiter is still
\* at its select.
C36_Witness ==
    /\ lastRet.op = "provision"
    /\ lastRet.err = "failed"
    /\ agg = Nil /\ runtime = Nil /\ notifier = Nil
    /\ runtimeNotify = "open"
    /\ \E c \in Callers : Waiting(c)

(* ------------------- claims: the heights ConsensusSync gets ------------- *)

\* The blocks the consensus block stream has produced, in order.
ProducedBlocks == [k \in 1..produced |-> Height(k)]

\* s can be obtained from t by deleting elements: the elements of s are
\* matched against t from left to right.
RECURSIVE IsSubsequence(_, _)
IsSubsequence(s, t) ==
    IF s = <<>> THEN TRUE
    ELSE IF t = <<>> THEN FALSE
    ELSE IF Head(s) = Head(t) THEN IsSubsequence(Tail(s), Tail(t))
    ELSE IsSubsequence(s, Tail(t))

\* C37: the heights passed to ConsensusSync, in the order of the calls, are
\* a subsequence of the blocks produced on the stream: each was produced,
\* none is passed twice and none is passed after one produced later.
C37_SyncedIsSubsequenceOfProduced ==
    /\ IsSubsequence(syncLog, ProducedBlocks)
    /\ \A i, j \in 1..Len(syncLog) : i < j => syncLog[i] < syncLog[j]

\* C37 witness: ConsensusSync has been called for the first and for the third
\* block produced and not for the second, which the ring channel discarded.
C37_Witness ==
    /\ produced >= 3
    /\ syncLog = <<Height(1), Height(3)>>
    /\ blkPc = "select"

(* ---------------- claims: the newest block is delivered ----------------- *)

\* ConsensusSync has been called with the height of the k-th block.
Synced(k) == \E i \in 1..Len(syncLog) : syncLog[i] = Height(k)

\* C38: every run produces finitely many blocks, so production pauses in
\* each. Whenever a block has been produced, a state follows in which
\* ConsensusSync has been called with the height of the last block produced
\* by then, unless the notifier is stopped or its context cancelled: with
\* production paused and the notifier in operation the newest block is
\* neither lost in the ring channel nor left in the pipeline.
C38_NewestBlockDelivered ==
    (produced >= 1) ~> (Synced(produced) \/ stopCh = "closed" \/ ctxDone)

\* C38 witness: production has paused after at least two blocks, the
\* notifier is neither stopped nor cancelled, the pipeline is empty and the
\* last ConsensusSync call was for the last block produced.
C38_Witness ==
    /\ produced >= 2
    /\ stopCh = "open"
    /\ ~ctxDone
    /\ rawCh = <<>> /\ blkCh = <<>> /\ fwdPc = "recv"
    /\ blkPc = "select"
    /\ syncLog # <<>>
    /\ syncLog[Len(syncLog)] = Height(produced)

(* ----------------- claims: a descriptor of another kind ----------------- *)

\* The descriptor update received last was not of a compute runtime.
NotCompute == lastDsc.kind = "other"

\* C39: the receipt of a descriptor update whose kind is not compute ends the
\* iteration with done set, and the loop then only cancels the inner watch,
\* waits for it and returns.  It receives no further descriptor update; once
\* it has returned, the inner watch has returned too, the descriptor
\* subscription and every inner subscription are closed, and no step changes
\* anything of the policy watch any more: no event is handled and no push is
\* made, with or without Stop.
C39_NonComputeEndsPolicyWatch ==
    /\ [][(lastDsc' # lastDsc /\ lastDsc'.kind = "other")
            => (done' /\ polPc' = "cancel" /\ UNCHANGED kmRtID)]_vars
    /\ [](NotCompute => (done /\ polPc \in {"cancel", "wait", "exit", "done"}))
    /\ [][NotCompute => lastDsc' = lastDsc]_vars
    /\ []((NotCompute /\ polPc = "done")
            => /\ kmPc \in {"none", "done"}
               /\ dscSub = "closed"
               /\ \A k \in SubKinds : subs[k] = {}
               /\ pend = <<>>)
    /\ [][(NotCompute /\ polPc = "done") => UNCHANGED policyVars]_vars

\* C39 witness: while a key manager was tracked and the notifier was not
\* stopped, a descriptor of another kind arrived; the loop has returned with
\* every subscription closed.
C39_Witness ==
    /\ NotCompute
    /\ lastDsc.was # Nil
    /\ stopCh = "open"
    /\ polPc = "done"
    /\ kmPc = "done"
    /\ dscSub = "closed"
    /\ \A k \in SubKinds : subs[k] = {}

(* ---------------- claims: a failed set-up of the inner watch ------------ *)

\* The inner watch for a key manager has returned while the outer loop is in
\* its select: nothing has cancelled it unless n.ctx is done, so its set-up
\* failed (or n.ctx was cancelled).
InnerGone == polPc = "select" /\ kmArg # Nil /\ kmPc = "done"

\* C40: an inner watch that has returned has closed every subscription it
\* opened and has nothing known or queued.  While the outer loop is then in
\* its select it tracks the same key manager, no step starts another inner
\* watch, handles an event or makes a push; the loop leaves this state only
\* by ending the iteration, with done set (Stop, cancellation, a descriptor
\* of another kind) or with a changed key manager; and it can take the Stop
\* case whenever stopCh is closed and the cancellation case whenever n.ctx is
\* done.
C40_FailedSetupLeavesNoInnerWatch ==
    /\ [](kmPc = "done" =>
            /\ \A k \in SubKinds : subs[k] = {}
            /\ st = NilStatus /\ sc = NilConstraints
            /\ curPushes \o pend = <<>>)
    /\ [](InnerGone => kmRtID = kmArg)
    /\ [][InnerGone => UNCHANGED innerVars]_vars
    /\ [][(InnerGone /\ ~InnerGone')
            => (polPc' = "cancel" /\ (done' \/ kmRtID' # kmRtID))]_vars
    /\ []((InnerGone /\ Running) =>
            /\ ENABLED PolRecvDescriptor
            /\ stopCh = "closed" => ENABLED PolSelectStop
            /\ ctxDone => ENABLED PolSelectCtx)

\* C40 witness: with the notifier neither stopped nor cancelled, the inner
\* watch for a key manager has returned from its set-up with its
\* subscriptions closed, and the outer loop is in its select tracking that
\* key manager.
C40_Witness ==
    /\ InnerGone
    /\ ~ctxDone
    /\ stopCh = "open"
    /\ ~innerCancel
    /\ kmRtID = kmArg
    /\ \A k \in SubKinds : subs[k] = {}

====
